---------------------------- MODULE Spec2Model ----------------------------
(***************************************************************************)
(* Model of etc/scripts/create_package.py: the offline package builder of  *)
(* the sidecar-redfish repository.  One run of main() is a sequence of     *)
(* steps (pre-flight, gather, download, filter, archive); the version      *)
(* control client and the package index client are modelled by what they   *)
(* print, and the Python text handling by what it does to that text.       *)
(*                                                                         *)
(* Text is a sequence of one-character strings, so that strip, split,      *)
(* splitlines, startswith and endswith are computed as Python computes     *)
(* them.                                                                   *)
(***************************************************************************)
EXTENDS Integers, Sequences, FiniteSets, TLC

(***************************************************************************)
(* Bounds of the model.                                                    *)
(***************************************************************************)
\* number of revisions of the modelled history that a run may name
NumRevs == 3
\* number of candidate paths of the generated trees of SpecDiff
MaxDiffPaths == 4
\* an I/O error while the archive is written hits one of the first MaxFault members
MaxFault == 1
\* number of lines of the generated manifests of SpecReq
MaxReqLines == 3
\* number of lines of the generated .distignore files of SpecIgn
MaxRules == 2
\* the request handlers that run at the same time
NumHandlers == 2
\* the seconds the clock runs for
MaxNow == 1
\* the upstream requests a behaviour issues at most
MaxUpstream == 2

(***************************************************************************)
(* Characters and Python string operations.                                *)
(***************************************************************************)
NUL == "NUL"
LF == "\n"
TAB == "\t"
SP == " "

\* the characters of the model in ASCII order (the order of str comparison)
Alphabet ==
  << NUL, TAB, LF, SP, "!", "#", "*", "-", ".", "/", "0", "1", "2", "3", "4", "5", "6",
     "7", "8", "9", "=", ">", "a", "b", "c", "d", "e", "h", "i", "l", "m", "n", "o", "p", "q",
     "r", "s", "t", "u", "v", "w", "x", "y", "z" >>

Ord(c) == CHOOSE i \in 1..Len(Alphabet) : Alphabet[i] = c

\* characters removed by str.strip() and separating the fields of str.split()
Whitespace == {SP, LF, TAB}

\* s < t for Python str: decided by the first position where they differ, by
\* the lengths when one is a prefix of the other
StrLess(s, t) ==
  LET n == IF Len(s) < Len(t) THEN Len(s) ELSE Len(t)
      diff == { i \in 1..n : s[i] # t[i] }
  IN IF diff = {} THEN Len(s) < Len(t)
     ELSE LET k == CHOOSE i \in diff : \A j \in diff : i <= j
          IN Ord(s[k]) < Ord(t[k])

RECURSIVE LStripSet(_, _)
LStripSet(s, cs) ==
  IF s # << >> /\ Head(s) \in cs THEN LStripSet(Tail(s), cs) ELSE s

RECURSIVE RStripSet(_, _)
RStripSet(s, cs) ==
  IF s # << >> /\ s[Len(s)] \in cs THEN RStripSet(SubSeq(s, 1, Len(s) - 1), cs)
  ELSE s

\* str.strip(chars)
StripSet(s, cs) == RStripSet(LStripSet(s, cs), cs)

\* str.strip()
Strip(s) == StripSet(s, Whitespace)

\* str.startswith(p), str.endswith(p)
StartsWith(s, p) == Len(s) >= Len(p) /\ SubSeq(s, 1, Len(p)) = p
EndsWith(s, p) == Len(s) >= Len(p) /\ SubSeq(s, Len(s) - Len(p) + 1, Len(s)) = p

\* str.split(sep) for a non-empty separator: the text before the leftmost
\* occurrence of sep, then the pieces of the text after it
RECURSIVE Split(_, _)
Split(s, sep) ==
  LET hits == { i \in 1..(Len(s) - Len(sep) + 1) : SubSeq(s, i, i + Len(sep) - 1) = sep }
  IN IF hits = {} THEN << s >>
     ELSE LET first == CHOOSE i \in hits : \A j \in hits : i <= j
          IN << SubSeq(s, 1, first - 1) >>
               \o Split(SubSeq(s, first + Len(sep), Len(s)), sep)

\* str.splitlines(): no piece for the text after a final line break
SplitLines(s) ==
  LET pieces == Split(s, << LF >>)
  IN IF pieces[Len(pieces)] = << >> THEN SubSeq(pieces, 1, Len(pieces) - 1)
     ELSE pieces

\* str.split(): fields separated by runs of whitespace, none of them empty
RECURSIVE SplitWs(_)
SplitWs(s) ==
  LET t == LStripSet(s, Whitespace)
      ws == { i \in 1..Len(t) : t[i] \in Whitespace }
  IN IF t = << >> THEN << >>
     ELSE IF ws = {} THEN << t >>
     ELSE LET first == CHOOSE i \in ws : \A j \in ws : i <= j
          IN << SubSeq(t, 1, first - 1) >> \o SplitWs(SubSeq(t, first + 1, Len(t)))

\* sep.join(parts)
RECURSIVE Join(_, _)
Join(parts, sep) ==
  IF parts = << >> THEN << >>
  ELSE IF Len(parts) = 1 THEN parts[1]
  ELSE parts[1] \o sep \o Join(Tail(parts), sep)

\* int(s, 8)
RECURSIVE OctInt(_)
OctInt(s) ==
  IF s = << >> THEN 0
  ELSE 8 * OctInt(SubSeq(s, 1, Len(s) - 1)) + (Ord(s[Len(s)]) - Ord("0"))

\* the elements of a sequence
Range(s) == { s[i] : i \in 1..Len(s) }

\* [x for x in s if x in keep]
RECURSIVE FilterSeq(_, _)
FilterSeq(s, keep) ==
  IF s = << >> THEN << >>
  ELSE (IF Head(s) \in keep THEN << Head(s) >> ELSE << >>) \o FilterSeq(Tail(s), keep)

\* a set of strings as the sequence sorted by StrLess
RECURSIVE SortedSeq(_)
SortedSeq(S) ==
  IF S = {} THEN << >>
  ELSE LET m == CHOOSE x \in S : \A y \in S \ {x} : StrLess(x, y)
       IN << m >> \o SortedSeq(S \ {m})


(***************************************************************************)
(* Python dict: a sequence of <<key, value>> pairs in insertion order.     *)
(***************************************************************************)
DictKeys(d) == { d[i][1] : i \in 1..Len(d) }

DictGet(d, k) == d[CHOOSE i \in 1..Len(d) : d[i][1] = k][2]

\* d[k] = v: a new key goes last, an existing key keeps its place
DictPut(d, k, v) ==
  IF k \in DictKeys(d)
  THEN [ i \in 1..Len(d) |-> IF d[i][1] = k THEN << k, v >> ELSE d[i] ]
  ELSE Append(d, << k, v >>)

(***************************************************************************)
(* State.                                                                  *)
(***************************************************************************)
VARIABLES
  args,                \* parsed command line: old_version, new_version, full, force
  repo,                \* object database: revision name -> tree (path -> blob)
  worktree,            \* working tree: the .distignore file at the project root
  index,               \* package index: the specifiers a wheel can be fetched for
  host,                \* clock, user, umask and listdir order of the build host
  pc,                  \* position of the run in main()
  renames,             \* the renames the diff source reported to this run
  dep_changes,         \* main: dep_changes
  files_to_add,        \* main: files_to_add
  files_to_delete,     \* main: files_to_delete
  has_wheels,          \* main: has_wheels
  final_files_to_add,  \* main: final_files_to_add
  temp_dir,            \* the TemporaryDirectory: "none", "exists" or "removed"
  staging,             \* files below temp_dir: path -> entry with host metadata
  pip_calls,           \* the pip download commands run so far, in order
  failed_calls,        \* the external commands that returned a failure status
  output,              \* the file at output_path
  exit_code,           \* process exit status, -1 while running
  log,                 \* events reported through logging
  prev,                \* inputs and outcome of the previous run on this repository
  http,                \* the last exchange with a manager action endpoint
  now,                 \* the monotonic clock of the service, in seconds
  cache,               \* the TTLCache of a cached reader: key (cls) -> entry
  handlers,            \* the request handlers calling the cached reader
  upstream             \* the upstream requests the reader has issued, in order

\* the state of a packaging run
pvars ==
  << args, repo, worktree, index, host, pc, renames, dep_changes, files_to_add,
     files_to_delete, has_wheels, final_files_to_add, temp_dir, staging,
     pip_calls, failed_calls, output, exit_code, log, prev >>

\* the state of the Redfish service
svars == << http, now, cache, handlers, upstream >>

vars == << pvars, svars >>

(***************************************************************************)
(* The version control client, by what it prints.                          *)
(***************************************************************************)
Blob(content, mode) == [content |-> content, mode |-> mode]

\* git cat-file -e <version>^{commit}
GitCatFileOk(version) == version \in DOMAIN repo

\* git ls-tree -r --name-only <version>: one path per line, sorted
GitLsTreeNames(version) ==
  LET names == SortedSeq(DOMAIN repo[version])
  IN Join([ i \in 1..Len(names) |-> names[i] \o << LF >> ], << >>)

\* git ls-tree -r <version> <paths>: "<mode> blob <hash>\t<path>" per entry
GitLsTreeLong(version, paths) ==
  LET names == SortedSeq(DOMAIN repo[version] \cap Range(paths))
  IN Join([ i \in 1..Len(names) |->
              repo[version][names[i]].mode \o << SP, "b", SP, "h", TAB >>
                \o names[i] \o << LF >> ], << >>)

\* git show <version>:<path>: return code and stdout
GitShow(version, path) ==
  IF version \in DOMAIN repo /\ path \in DOMAIN repo[version]
  THEN [returncode |-> 0, stdout |-> repo[version][path].content]
  ELSE [returncode |-> 128, stdout |-> << >>]

\* similarity of two blobs as the rename detection of diff-tree judges it
Similar(b1, b2) ==
  \/ b1.content = b2.content
  \/ b1.content # << >> /\ b2.content # << >> /\ b1.content[1] = b2.content[1]

\* the pairings of a deleted with an added path that diff-tree may report as
\* renames: partial, one-to-one, similar content
RenameMatchings(old_version, new_version) ==
  LET deleted == DOMAIN repo[old_version] \ DOMAIN repo[new_version]
      added == DOMAIN repo[new_version] \ DOMAIN repo[old_version]
  IN { m \in UNION { [ D -> added ] : D \in SUBSET deleted } :
         /\ \A p, q \in DOMAIN m : p # q => m[p] # m[q]
         /\ \A p \in DOMAIN m :
              Similar(repo[old_version][p], repo[new_version][m[p]]) }

\* git diff-tree -r -z --name-status --diff-filter=ACMRD <old> <new>, with the
\* renames m: NUL-terminated fields, records in the order of their path
GitDiffTree(old_version, new_version, m) ==
  LET told == repo[old_version]
      tnew == repo[new_version]
      renamed_to == { m[p] : p \in DOMAIN m }
      changed == { p \in DOMAIN told \cap DOMAIN tnew : told[p] # tnew[p] }
      keys == ((DOMAIN told \ DOMAIN tnew) \ DOMAIN m)
                \cup (DOMAIN tnew \ DOMAIN told) \cup changed
      order == SortedSeq(keys)
      Record(p) ==
        IF p \in renamed_to
        THEN << "R", "1", "0", "0", NUL >>
               \o (CHOOSE q \in DOMAIN m : m[q] = p) \o << NUL >> \o p \o << NUL >>
        ELSE IF p \in changed THEN << "M", NUL >> \o p \o << NUL >>
        ELSE IF p \in DOMAIN tnew THEN << "A", NUL >> \o p \o << NUL >>
        ELSE << "D", NUL >> \o p \o << NUL >>
  IN Join([ i \in 1..Len(order) |-> Record(order[i]) ], << >>)


(***************************************************************************)
(* create_package.py: constants and the functions of the dependency side.  *)
(***************************************************************************)
FIXED_MTIME == 1735689600

\* the literal "requirements.txt"
ReqName ==
  << "r", "e", "q", "u", "i", "r", "e", "m", "e", "n", "t", "s", ".", "t", "x", "t" >>

\* str(Path(p).parent)
PathParent(p) ==
  LET parts == Split(p, << "/" >>)
  IN IF Len(parts) = 1 THEN << "." >>
     ELSE Join(SubSeq(parts, 1, Len(parts) - 1), << "/" >>)

\* the replace(os.sep, '/') of a path on a POSIX host
NormSep(p) == p

\* get_all_files
GetAllFiles(version) ==
  LET lines == SplitLines(Strip(GitLsTreeNames(version)))
  IN [ i \in 1..Len(lines) |-> NormSep(lines[i]) ]

\* parse_requirements, the loop body for the lines from i on
RECURSIVE ParseReqLoop(_, _, _)
ParseReqLoop(lines, i, packages) ==
  IF i > Len(lines) THEN packages
  ELSE LET line == Strip(lines[i])
           parts == Split(line, << "=", "=" >>)
       IN IF line # << >> /\ ~StartsWith(line, << "#" >>) /\ Len(parts) = 2
          THEN ParseReqLoop(lines, i + 1,
                            DictPut(packages, Strip(parts[1]), Strip(parts[2])))
          ELSE ParseReqLoop(lines, i + 1, packages)

\* parse_requirements
ParseRequirements(content) == ParseReqLoop(SplitLines(content), 1, << >>)

\* get_file_content_from_git
GetFileContentFromGit(version, file_path) ==
  LET result == GitShow(version, file_path)
  IN IF result.returncode = 0 THEN result.stdout ELSE << >>

\* the git show commands of get_file_content_from_git that fail for the
\* manifests req_files at a version, one entry per command
FailedManifestReads(version, req_files) ==
  LET failed == FilterSeq(req_files,
                          { f \in Range(req_files) : GitShow(version, f).returncode # 0 })
  IN [ i \in 1..Len(failed) |-> "git show" ]

\* the req_files of get_all_dependencies and get_dependency_changes
ReqFiles(version) ==
  LET lines == SplitLines(GitLsTreeNames(version))
  IN FilterSeq(lines, { p \in Range(lines) : EndsWith(p, ReqName) })

\* f"{pkg}=={ver}"
Specifier(pkg, ver) == pkg \o << "=", "=" >> \o ver

\* get_all_dependencies, the loop over req_files from i on
RECURSIVE AllDepsLoop(_, _, _, _)
AllDepsLoop(version, req_files, i, all_deps) ==
  IF i > Len(req_files) THEN all_deps
  ELSE LET packages ==
             ParseRequirements(GetFileContentFromGit(version, req_files[i]))
           specs == [ j \in 1..Len(packages) |->
                        Specifier(packages[j][1], packages[j][2]) ]
       IN AllDepsLoop(version, req_files, i + 1,
                      IF packages # << >>
                      THEN DictPut(all_deps, PathParent(req_files[i]), specs)
                      ELSE all_deps)

\* get_all_dependencies
GetAllDependencies(version) ==
  AllDepsLoop(version, ReqFiles(version), 1, << >>)

\* the module_changes of one manifest in get_dependency_changes
ModuleChanges(old_reqs, new_reqs) ==
  LET changed == { j \in 1..Len(new_reqs) :
                     \/ new_reqs[j][1] \notin DictKeys(old_reqs)
                     \/ DictGet(old_reqs, new_reqs[j][1]) # new_reqs[j][2] }
      kept == FilterSeq(new_reqs, { new_reqs[j] : j \in changed })
  IN [ j \in 1..Len(kept) |-> Specifier(kept[j][1], kept[j][2]) ]

\* get_dependency_changes without the test of module_changes: a manifest that
\* changed gets an entry even when the list is empty
RECURSIVE DepChangesLoopKeepsEmpty(_, _, _, _, _)
DepChangesLoopKeepsEmpty(old_version, new_version, req_files, i, changes) ==
  IF i > Len(req_files) THEN changes
  ELSE LET old_reqs ==
             ParseRequirements(GetFileContentFromGit(old_version, req_files[i]))
           new_reqs ==
             ParseRequirements(GetFileContentFromGit(new_version, req_files[i]))
           module_changes == ModuleChanges(old_reqs, new_reqs)
       IN DepChangesLoopKeepsEmpty(old_version, new_version, req_files, i + 1,
                         IF Range(old_reqs) # Range(new_reqs)
                         THEN DictPut(changes, PathParent(req_files[i]), module_changes)
                         ELSE changes)

\* get_dependency_changes, the loop over req_files from i on
RECURSIVE DepChangesLoop(_, _, _, _, _)
DepChangesLoop(old_version, new_version, req_files, i, changes) ==
  IF i > Len(req_files) THEN changes
  ELSE LET old_reqs ==
             ParseRequirements(GetFileContentFromGit(old_version, req_files[i]))
           new_reqs ==
             ParseRequirements(GetFileContentFromGit(new_version, req_files[i]))
           module_changes == ModuleChanges(old_reqs, new_reqs)
       IN DepChangesLoop(old_version, new_version, req_files, i + 1,
                         IF Range(old_reqs) # Range(new_reqs) /\ module_changes # << >>
                         THEN DictPut(changes, PathParent(req_files[i]), module_changes)
                         ELSE changes)

\* get_dependency_changes
GetDependencyChanges(old_version, new_version) ==
  DepChangesLoop(old_version, new_version, ReqFiles(new_version), 1, << >>)

(***************************************************************************)
(* get_file_diff and the ignore filter.                                    *)
(***************************************************************************)
\* get_file_diff with a rename branch that also keeps the old path in the
\* add list
RECURSIVE FileDiffLoopRenameKeepsOld(_, _, _, _)
FileDiffLoopRenameKeepsOld(entries, i, to_add, to_delete) ==
  IF i > Len(entries)
  THEN [ok |-> TRUE, files_to_add |-> to_add, files_to_delete |-> to_delete]
  ELSE LET status == entries[i]
       IN IF StartsWith(status, << "R" >>)
          THEN IF i + 2 > Len(entries)
               THEN [ok |-> FALSE, files_to_add |-> to_add, files_to_delete |-> to_delete]
               ELSE FileDiffLoopRenameKeepsOld(entries, i + 3,
                      to_add \o << NormSep(entries[i + 1]), NormSep(entries[i + 2]) >>,
                      Append(to_delete, NormSep(entries[i + 1])))
          ELSE IF i + 1 > Len(entries)
               THEN [ok |-> FALSE, files_to_add |-> to_add, files_to_delete |-> to_delete]
               ELSE IF status = << "D" >>
                    THEN FileDiffLoopRenameKeepsOld(entries, i + 2, to_add,
                           Append(to_delete, NormSep(entries[i + 1])))
                    ELSE FileDiffLoopRenameKeepsOld(entries, i + 2,
                           Append(to_add, NormSep(entries[i + 1])), to_delete)

\* get_file_diff with a rename branch that reads the two paths in the wrong
\* order
RECURSIVE FileDiffLoopRenameSwapped(_, _, _, _)
FileDiffLoopRenameSwapped(entries, i, to_add, to_delete) ==
  IF i > Len(entries)
  THEN [ok |-> TRUE, files_to_add |-> to_add, files_to_delete |-> to_delete]
  ELSE LET status == entries[i]
       IN IF StartsWith(status, << "R" >>)
          THEN IF i + 2 > Len(entries)
               THEN [ok |-> FALSE, files_to_add |-> to_add, files_to_delete |-> to_delete]
               ELSE FileDiffLoopRenameSwapped(entries, i + 3,
                      Append(to_add, NormSep(entries[i + 1])),
                      Append(to_delete, NormSep(entries[i + 2])))
          ELSE IF i + 1 > Len(entries)
               THEN [ok |-> FALSE, files_to_add |-> to_add, files_to_delete |-> to_delete]
               ELSE IF status = << "D" >>
                    THEN FileDiffLoopRenameSwapped(entries, i + 2, to_add,
                           Append(to_delete, NormSep(entries[i + 1])))
                    ELSE FileDiffLoopRenameSwapped(entries, i + 2,
                           Append(to_add, NormSep(entries[i + 1])), to_delete)

\* get_file_diff, the while loop from entry i on (1-based); ok is FALSE when
\* an index past the end of entries raises IndexError
RECURSIVE FileDiffLoop(_, _, _, _)
FileDiffLoop(entries, i, to_add, to_delete) ==
  IF i > Len(entries)
  THEN [ok |-> TRUE, files_to_add |-> to_add, files_to_delete |-> to_delete]
  ELSE LET status == entries[i]
       IN IF StartsWith(status, << "R" >>)
          THEN IF i + 2 > Len(entries)
               THEN [ok |-> FALSE, files_to_add |-> to_add, files_to_delete |-> to_delete]
               ELSE FileDiffLoop(entries, i + 3,
                                 Append(to_add, NormSep(entries[i + 2])),
                                 Append(to_delete, NormSep(entries[i + 1])))
          ELSE IF i + 1 > Len(entries)
               THEN [ok |-> FALSE, files_to_add |-> to_add, files_to_delete |-> to_delete]
               ELSE IF status = << "D" >>
                    THEN FileDiffLoop(entries, i + 2, to_add,
                                      Append(to_delete, NormSep(entries[i + 1])))
                    ELSE FileDiffLoop(entries, i + 2,
                                      Append(to_add, NormSep(entries[i + 1])), to_delete)

\* get_file_diff on the output of diff-tree
GetFileDiff(stdout) ==
  FileDiffLoop(Split(StripSet(stdout, {NUL}), << NUL >>), 1, << >>, << >>)

\* a gitignore glob against one path component: "*" is any run of characters
RECURSIVE GlobMatch(_, _)
GlobMatch(pat, s) ==
  IF pat = << >> THEN s = << >>
  ELSE IF Head(pat) = "*"
       THEN \/ GlobMatch(Tail(pat), s)
            \/ s # << >> /\ GlobMatch(pat, Tail(s))
       ELSE s # << >> /\ Head(s) = Head(pat) /\ GlobMatch(Tail(pat), Tail(s))

\* GitWildMatchPattern.match_file: a pattern without "/" matches a component
\* at any depth, a pattern with "/" matches from the root
PatternMatches(pat, path) ==
  LET pcs == Split(LStripSet(pat, {"/"}), << "/" >>)
      fcs == Split(path, << "/" >>)
  IN IF Len(pcs) = 1
     THEN \E k \in 1..Len(fcs) : GlobMatch(pcs[1], fcs[k])
     ELSE /\ Len(pcs) <= Len(fcs)
          /\ \A k \in 1..Len(pcs) : GlobMatch(pcs[k], fcs[k])

\* PathSpec.match_file over the pattern lines from i on: the last pattern that
\* matches decides, a "!" pattern re-includes
RECURSIVE MatchFileLoop(_, _, _, _)
MatchFileLoop(lines, i, path, matched) ==
  IF i > Len(lines) THEN matched
  ELSE LET line == lines[i]
       IN IF line = << >> \/ StartsWith(line, << "#" >>)
          THEN MatchFileLoop(lines, i + 1, path, matched)
          ELSE IF StartsWith(line, << "!" >>)
               THEN MatchFileLoop(lines, i + 1, path,
                                  IF PatternMatches(Tail(line), path) THEN FALSE ELSE matched)
               ELSE MatchFileLoop(lines, i + 1, path,
                                  IF PatternMatches(line, path) THEN TRUE ELSE matched)

\* set(spec.match_files(files_to_add))
IgnoredFiles(patterns, files) ==
  { f \in Range(files) : MatchFileLoop(SplitLines(patterns), 1, f, FALSE) }

\* filter_files_with_distignore that returns an empty list when there is no
\* .distignore
FilterFilesNothingWithoutRules(wt, files) ==
  IF ~wt.distignore_is_file THEN << >>
  ELSE FilterSeq(files, Range(files) \ IgnoredFiles(wt.distignore, files))

\* a loop that removes from the list it iterates over: after a removal the
\* next element moves to the current index and is skipped
RECURSIVE RemoveWhileIterating(_, _, _)
RemoveWhileIterating(files, ignored, i) ==
  IF i > Len(files) THEN files
  ELSE IF files[i] \in ignored
       THEN RemoveWhileIterating(SubSeq(files, 1, i - 1) \o SubSeq(files, i + 1, Len(files)),
                                 ignored, i + 1)
       ELSE RemoveWhileIterating(files, ignored, i + 1)

\* filter_files_with_distignore that removes the ignored files from
\* files_to_add while iterating over it
FilterFilesRemovingInPlace(wt, files) ==
  IF ~wt.distignore_is_file THEN files
  ELSE RemoveWhileIterating(files, IgnoredFiles(wt.distignore, files), 1)

\* filter_files_with_distignore: the returned list
FilterFilesWithDistignore(wt, files) ==
  IF ~wt.distignore_is_file THEN files
  ELSE FilterSeq(files, Range(files) \ IgnoredFiles(wt.distignore, files))

(***************************************************************************)
(* download_wheels: the staging tree below temp_dir.                       *)
(***************************************************************************)
\* a & ~b on the permission bits
RECURSIVE BitAndNot(_, _)
BitAndNot(a, b) ==
  IF a = 0 THEN 0
  ELSE (a % 2) * (1 - (b % 2)) + 2 * BitAndNot(a \div 2, b \div 2)

\* a directory made by Path.mkdir, a file written by pip, as lstat shows them
StagedDir(h) ==
  [type |-> "dir", mode |-> BitAndNot(511, h.umask), mtime |-> h.clock,
   uid |-> h.uid, gid |-> h.gid, uname |-> h.uname, gname |-> h.gname,
   content |-> << >>]

StagedFile(h, content) ==
  [type |-> "file", mode |-> BitAndNot(438, h.umask), mtime |-> h.clock,
   uid |-> h.uid, gid |-> h.gid, uname |-> h.uname, gname |-> h.gname,
   content |-> content]

WheelsDir == << "w", "h", "e", "e", "l", "s" >>

\* wheels_base_dir / module_path, relative to temp_dir
TargetDir(module_path) ==
  IF module_path = << "." >> THEN WheelsDir ELSE WheelsDir \o << "/" >> \o module_path

\* target_dir and the parents mkdir(parents=True) makes below wheels
RECURSIVE DirChain(_)
DirChain(d) ==
  IF d = << "." >> \/ d = WheelsDir THEN {WheelsDir} ELSE {d} \cup DirChain(PathParent(d))

\* the file name of the wheel pip saves for a specifier
WheelName(spec) ==
  LET parts == Split(spec, << "=", "=" >>)
  IN parts[1] \o << "-" >> \o parts[2] \o << ".", "w", "h", "l" >>

\* pip download of one module: return code 0 and every wheel saved when the
\* index has them all, otherwise a failure that saves nothing
PipDownload(packages, idx) ==
  IF Range(packages) \subseteq idx
  THEN [returncode |-> 0, saved |-> { WheelName(sp) : sp \in Range(packages) }]
  ELSE [returncode |-> 1, saved |-> {}]

\* download_wheels with a loop that ends at the first pip command that fails
RECURSIVE DownloadLoopStopsOnFailure(_, _, _, _, _)
DownloadLoopStopsOnFailure(changes, i, h, idx, st) ==
  IF i > Len(changes) THEN st
  ELSE LET target_dir == TargetDir(changes[i][1])
           result == PipDownload(changes[i][2], idx)
           dirs == DirChain(target_dir) \ DOMAIN st.tree
           files == { target_dir \o << "/" >> \o w : w \in result.saved }
           tree == [ p \in DOMAIN st.tree \cup dirs \cup files |->
                       IF p \in files THEN StagedFile(h, << "w" >>)
                       ELSE IF p \in DOMAIN st.tree THEN st.tree[p]
                       ELSE StagedDir(h) ]
       IN DownloadLoopStopsOnFailure(changes,
                       IF result.returncode # 0 THEN Len(changes) + 1 ELSE i + 1,
                       h, idx,
                       [tree |-> tree,
                        calls |-> Append(st.calls,
                                         [dest |-> target_dir,
                                          requirements |-> Join(changes[i][2], << LF >>),
                                          returncode |-> result.returncode]),
                        warned |-> IF result.returncode # 0
                                   THEN Append(st.warned, changes[i][1])
                                   ELSE st.warned])

\* download_wheels, the loop over changes.items() from i on
RECURSIVE DownloadLoop(_, _, _, _, _)
DownloadLoop(changes, i, h, idx, st) ==
  IF i > Len(changes) THEN st
  ELSE LET target_dir == TargetDir(changes[i][1])
           result == PipDownload(changes[i][2], idx)
           dirs == DirChain(target_dir) \ DOMAIN st.tree
           files == { target_dir \o << "/" >> \o w : w \in result.saved }
           tree == [ p \in DOMAIN st.tree \cup dirs \cup files |->
                       IF p \in files THEN StagedFile(h, << "w" >>)
                       ELSE IF p \in DOMAIN st.tree THEN st.tree[p]
                       ELSE StagedDir(h) ]
       IN DownloadLoop(changes, i + 1, h, idx,
                       [tree |-> tree,
                        calls |-> Append(st.calls,
                                         [dest |-> target_dir,
                                          requirements |-> Join(changes[i][2], << LF >>),
                                          returncode |-> result.returncode]),
                        warned |-> IF result.returncode # 0
                                   THEN Append(st.warned, changes[i][1])
                                   ELSE st.warned])

\* download_wheels: the staging tree, the pip commands run, the modules warned
\* about, and the returned flag any(wheels_base_dir.rglob("*.whl"))
DownloadWheels(changes, h, idx) ==
  IF changes = << >>
  THEN [tree |-> << >>, calls |-> << >>, warned |-> << >>, has_wheels |-> FALSE]
  ELSE LET st == DownloadLoop(changes, 1, h, idx,
                              [tree |-> (WheelsDir :> StagedDir(h)),
                               calls |-> << >>, warned |-> << >>])
       IN [tree |-> st.tree, calls |-> st.calls, warned |-> st.warned,
           has_wheels |-> \E p \in DOMAIN st.tree :
                            EndsWith(p, << ".", "w", "h", "l" >>)]

(***************************************************************************)
(* reset_tarinfo and create_archive.                                       *)
(***************************************************************************)
\* tarfile.TarInfo(name) with size, mode and content set
TarInfo(name, mode, content) ==
  [name |-> name, type |-> "file", mode |-> mode, mtime |-> 0, uid |-> 0,
   gid |-> 0, uname |-> "", gname |-> "", size |-> Len(content),
   content |-> content]

\* reset_tarinfo without the two lines that reset uid and gid
ResetTarinfoKeepsOwner(ti) ==
  [ti EXCEPT !.mtime = FIXED_MTIME, !.uname = "root", !.gname = "root"]

\* reset_tarinfo
ResetTarinfo(ti) ==
  [ti EXCEPT !.mtime = FIXED_MTIME, !.uid = 0, !.gid = 0,
             !.uname = "root", !.gname = "root"]

\* the member as the tar header stores it: the permission bits of the mode
TarHeader(ti) == [ti EXCEPT !.mode = ti.mode % 4096]

\* create_archive: file_modes, built from the lines of git ls-tree from i on
RECURSIVE FileModesLoop(_, _, _)
FileModesLoop(lines, i, file_modes) ==
  IF i > Len(lines) THEN file_modes
  ELSE LET fields == SplitWs(lines[i])
       IN FileModesLoop(lines, i + 1,
                        DictPut(file_modes, fields[4], OctInt(fields[1])))

FileModes(version, files) ==
  FileModesLoop(SplitLines(Strip(GitLsTreeLong(version, files))), 1, << >>)

AppPrefix == << "a", "p", "p", "/" >>
DeleteListName == << "d", "e", "l", "e", "t", "e", ".", "l", "i", "s", "t" >>

\* create_archive: the (tarinfo, content) pairs of the application files
AppMembers(version, files) ==
  LET file_modes == FileModes(version, files)
  IN [ i \in 1..Len(files) |->
         TarInfo(AppPrefix \o files[i],
                 IF files[i] \in DictKeys(file_modes)
                 THEN DictGet(file_modes, files[i]) ELSE 420,
                 GitShow(version, files[i]).stdout) ]

\* create_archive with a delete.list whose paths are sorted first
DeleteListMemberSorted(to_delete) ==
  TarInfo(DeleteListName, 420, Join(SortedSeq(Range(to_delete)), << LF >>))

\* create_archive: the delete.list member
DeleteListMember(to_delete) ==
  TarInfo(DeleteListName, 420, Join(to_delete, << LF >>))

\* list.sort with reverse=True: insertion into a list kept in descending order
RECURSIVE InsertByNameDescending(_, _)
InsertByNameDescending(ms, m) ==
  IF ms = << >> THEN << m >>
  ELSE IF StrLess(Head(ms).name, m.name) THEN << m >> \o ms
  ELSE << Head(ms) >> \o InsertByNameDescending(Tail(ms), m)

\* list.sort(key=name): stable insertion of m into the sorted list ms
RECURSIVE InsertByName(_, _)
InsertByName(ms, m) ==
  IF ms = << >> THEN << m >>
  ELSE IF StrLess(m.name, Head(ms).name) THEN << m >> \o ms
  ELSE << Head(ms) >> \o InsertByName(Tail(ms), m)

RECURSIVE SortByName(_)
SortByName(ms) ==
  IF ms = << >> THEN << >>
  ELSE InsertByName(SortByName(SubSeq(ms, 1, Len(ms) - 1)), ms[Len(ms)])

\* create_archive without the test of files_to_delete: delete.list is prepared
\* for an empty delete list too
PrepareMembersAlwaysDeleteList(version, files, to_delete) ==
  LET app == IF files # << >> THEN AppMembers(version, files) ELSE << >>
      del == << DeleteListMember(to_delete) >>
  IN [ok |-> \A i \in 1..Len(files) : GitShow(version, files[i]).returncode = 0,
      unsorted |-> app \o del,
      tar_members |-> SortByName(app \o del)]

\* create_archive up to the sort: ok is FALSE when a git show of an
\* application file fails and run_command exits
PrepareMembers(version, files, to_delete) ==
  LET app == IF files # << >> THEN AppMembers(version, files) ELSE << >>
      del == IF to_delete # << >> THEN << DeleteListMember(to_delete) >> ELSE << >>
  IN [ok |-> \A i \in 1..Len(files) : GitShow(version, files[i]).returncode = 0,
      unsorted |-> app \o del,
      tar_members |-> SortByName(app \o del)]

\* os.listdir of a staged directory, in the order of the host
ListDir(tree, d, h) ==
  LET names == SortedSeq({ p \in DOMAIN tree : p # d /\ PathParent(p) = d })
  IN IF h.listdir_reversed
     THEN [ i \in 1..Len(names) |-> names[Len(names) + 1 - i] ]
     ELSE names

\* TarFile.add(name, filter=reset_tarinfo): the entry itself, then the
\* entries of sorted(os.listdir(name)), recursively
RECURSIVE TarAdd(_, _, _)
RECURSIVE TarAddAll(_, _, _, _)
TarAdd(tree, name, h) ==
  LET st == tree[name]
      ti == ResetTarinfo([name |-> name, type |-> st.type, mode |-> st.mode,
                          mtime |-> st.mtime, uid |-> st.uid, gid |-> st.gid,
                          uname |-> st.uname, gname |-> st.gname,
                          size |-> Len(st.content), content |-> st.content])
  IN IF st.type = "dir"
     THEN << ti >> \o TarAddAll(tree, SortedSeq(Range(ListDir(tree, name, h))), 1, h)
     ELSE << ti >>

TarAddAll(tree, names, i, h) ==
  IF i > Len(names) THEN << >>
  ELSE TarAdd(tree, names[i], h) \o TarAddAll(tree, names, i + 1, h)

\* create_archive: every member in the order it is written
ArchiveMembers(tar_members, tree, wheels, h) ==
  LET prepared == [ i \in 1..Len(tar_members) |-> ResetTarinfo(tar_members[i]) ]
      all == prepared \o (IF wheels THEN TarAdd(tree, WheelsDir, h) ELSE << >>)
  IN [ i \in 1..Len(all) |-> TarHeader(all[i]) ]

(***************************************************************************)
(* The inputs of the model: a history of revisions, working trees, package *)
(* indexes and build hosts.                                                *)
(***************************************************************************)
M644 == << "1", "0", "0", "6", "4", "4" >>
M755 == << "1", "0", "0", "7", "5", "5" >>

DevReqName == << "d", "e", "v", "-" >> \o ReqName
SubReqName == << "s", "/" >> \o ReqName

\* revision 1: a path that starts with a space, x, a document, one manifest
Tree1 ==
  (<< SP, "l" >> :> Blob(<< "l" >>, M644))
    @@ (<< "x" >> :> Blob(<< "h", "i" >>, M644))
    @@ (<< "d", ".", "m", "d" >> :> Blob(<< "m" >>, M644))
    @@ (ReqName :> Blob(<< "a", "=", "=", "1", ".", "0", LF >>, M644))

\* revision 2: x renamed to y and made executable, a path with a space, the
\* manifest changed, a second manifest in the same directory
Tree2 ==
  (<< "y" >> :> Blob(<< "h", "i" >>, M755))
    @@ (<< "a", SP, "b" >> :> Blob(<< "s" >>, M755))
    @@ (<< "d", ".", "m", "d" >> :> Blob(<< "m" >>, M644))
    @@ (ReqName :> Blob(<< "a", "=", "=", "2", ".", "0", LF,
                           "b", "=", "=", "1", ".", "0", LF >>, M644))
    @@ (DevReqName :> Blob(<< "c", "=", "=", "1", ".", "0", LF >>, M644))

\* revision 3: revision 2 without the document
Tree3 == [ p \in DOMAIN Tree2 \ {<< "d", ".", "m", "d" >>} |-> Tree2[p] ]

\* revision 4: revision 3 with a manifest in a subdirectory
Tree4 ==
  Tree3 @@ (SubReqName :> Blob(<< "#", "c", LF, "e", "=", "=", "1", ".", "0", LF >>, M644))

History == << Tree1, Tree2, Tree3, Tree4 >>

RevName(i) == << "r1", "r2", "r3", "r4" >>[i]
RevNames == { RevName(i) : i \in 1..NumRevs }
\* a name that resolves to no commit
BadRev == "bad"

HistoryRepo == [ r \in RevNames |-> History[CHOOSE i \in 1..NumRevs : RevName(i) = r] ]

\* the package index has a wheel for every pin of the history, or for none
AllSpecs ==
  { Specifier(<< "a" >>, << "1", ".", "0" >>), Specifier(<< "a" >>, << "2", ".", "0" >>),
    Specifier(<< "b" >>, << "1", ".", "0" >>), Specifier(<< "c" >>, << "1", ".", "0" >>),
    Specifier(<< "e" >>, << "1", ".", "0" >>) }

Indexes == { {}, AllSpecs }

\* the .distignore of the working tree: missing, or excluding documents
MdRule == << "*", ".", "m", "d", LF >>

Worktrees ==
  { [distignore_is_file |-> FALSE, distignore |-> << >>, dirty |-> d] : d \in BOOLEAN }
    \cup { [distignore_is_file |-> TRUE, distignore |-> MdRule, dirty |-> d] : d \in BOOLEAN }

Host1 ==
  [clock |-> 1700000000, uid |-> 1000, gid |-> 1000, uname |-> "dev",
   gname |-> "dev", umask |-> 18, listdir_reversed |-> FALSE]

\* another time, another user, another listdir order, the same umask
Host2 ==
  [clock |-> 1800000000, uid |-> 0, gid |-> 0, uname |-> "root",
   gname |-> "root", umask |-> 18, listdir_reversed |-> TRUE]

\* another umask
Host3 ==
  [clock |-> 1700000000, uid |-> 1000, gid |-> 1000, uname |-> "dev",
   gname |-> "dev", umask |-> 63, listdir_reversed |-> FALSE]

Hosts == { Host1, Host2, Host3 }

ArgsSet ==
  [old_version : RevNames \cup {BadRev}, new_version : RevNames \cup {BadRev},
   full : BOOLEAN, force : BOOLEAN]

\* output_path: the default file name main derives from the arguments
OutputPath(a) ==
  IF a.full THEN << "ITG_Full-Package", a.new_version >>
  ELSE << "ITG_Update", a.old_version, a.new_version >>

\* no file at output_path; opened counts the times the path was opened for writing
NoFile ==
  [exists |-> FALSE, complete |-> FALSE, opened |-> 0, path |-> << >>,
   gz_mtime |-> 0, members |-> << >>]
NoTree == << >>
NoPrev == [valid |-> FALSE]

(***************************************************************************)
(* The Redfish service: the manager action endpoints.                      *)
(***************************************************************************)
\* http.HTTPStatus
HTTP_OK == 200
HTTP_BAD_REQUEST == 400

\* the values of the enumeration RfResetType
RfResetType ==
  { "On", "ForceOff", "GracefulShutdown", "GracefulRestart", "ForceRestart",
    "Nmi", "ForceOn", "PushPowerButton", "PowerCycle", "Suspend", "Pause",
    "Resume", "FullPowerCycle" }

\* the values of the enumeration RfResetToDefaultsType of rf_manager_model
RfResetToDefaultsType == { "ResetAll", "PreserveNetworkAndUsers", "PreserveNetwork" }

ResetEndpoint == "/redfish/v1/Managers/CDU/Actions/Manager.Reset"
ShutdownEndpoint == "/redfish/v1/Managers/CDU/Actions/Manager.Shutdown"
ResetToDefaultsEndpoint == "/redfish/v1/Managers/CDU/Actions/Manager.ResetToDefaults"
ManagerActionEndpoints == { ResetEndpoint, ShutdownEndpoint, ResetToDefaultsEndpoint }

Testcase(endpoint, reset_type, status_code) ==
  [endpoint |-> endpoint, ResetType |-> reset_type, status_code |-> status_code]

managers_cdu_reset_to_defaults_testcases ==
  << Testcase(ResetToDefaultsEndpoint, "ResetAll", HTTP_OK),
     Testcase(ResetToDefaultsEndpoint, "Invalid", HTTP_BAD_REQUEST) >>

managers_cdu_reset_testcases ==
  << Testcase(ResetEndpoint, "ForceRestart", HTTP_OK),
     Testcase(ResetEndpoint, "GracefulRestart", HTTP_OK),
     Testcase(ResetEndpoint, "Invalid", HTTP_BAD_REQUEST) >>

managers_cdu_shutdown_testcases ==
  << Testcase(ShutdownEndpoint, "ForceOff", HTTP_OK),
     Testcase(ShutdownEndpoint, "ForceOff", HTTP_OK),
     Testcase(ShutdownEndpoint, "Invalid", HTTP_BAD_REQUEST) >>

\* the enumeration an action endpoint validates ResetType against
AcceptedResetTypes(endpoint) ==
  IF endpoint = ResetToDefaultsEndpoint THEN RfResetToDefaultsType ELSE RfResetType

\* a handler that passes every ResetType on to the adapter
ManagerActionPostUnvalidated(endpoint, reset_type, adapter_status) == adapter_status

\* POST to an action endpoint: the status of the response, given the status
\* of the Response the adapter (reset, shutdown, reset_to_defaults) returns
ManagerActionPost(endpoint, reset_type, adapter_status) ==
  IF reset_type \notin AcceptedResetTypes(endpoint)
  THEN HTTP_BAD_REQUEST
  ELSE adapter_status

\* the ResetType values a client posts: every value of both enumerations,
\* a value of neither, a value in another case and the empty string
ResetTypeInputs ==
  RfResetType \cup RfResetToDefaultsType \cup { "Invalid", "forcerestart", "" }

\* the statuses the adapter reports: success, and a failure of the backend
AdapterStatuses == { HTTP_OK, 500 }

NoExchange ==
  [sent |-> FALSE, endpoint |-> "", ResetType |-> "", adapter_status |-> 0,
   status_code |-> 0, expected |-> 0]

Exchange(endpoint, reset_type, adapter_status, expected) ==
  [sent |-> TRUE, endpoint |-> endpoint, ResetType |-> reset_type,
   adapter_status |-> adapter_status,
   status_code |-> ManagerActionPost(endpoint, reset_type, adapter_status),
   expected |-> expected]

(***************************************************************************)
(* The Redfish service: the cached readers of BaseService.                 *)
(*   @cached(cache=TTLCache(maxsize=30, ttl=1)) without a lock:            *)
(*     k = key(cls); try: return cache[k]; except KeyError: pass           *)
(*     v = func(cls); cache[k] = v; return v                               *)
(***************************************************************************)
ttl == 1

\* the classes the classmethod is called on: the cache key is cls
Classes == { "BaseService", "Subclass" }

Handlers == 1..NumHandlers

NoEntry == [present |-> FALSE, value |-> 0, expires |-> 0]

\* TTLCache.__getitem__: an entry is a hit until its expiry time has come
Live(entry, t) == entry.present /\ t < entry.expires

IdleHandler == [pc |-> "idle", cls |-> "BaseService", req |-> 0, v |-> 0, hit |-> FALSE]

ServiceInit ==
  /\ http = NoExchange
  /\ now = 0
  /\ cache = [ c \in Classes |-> NoEntry ]
  /\ handlers = [ h \in Handlers |-> IdleHandler ]
  /\ upstream = << >>

(***************************************************************************)
(* main(): one action per step of the run.                                 *)
(***************************************************************************)
Init ==
  /\ args \in ArgsSet
  /\ repo = HistoryRepo
  /\ worktree \in Worktrees
  /\ index \in Indexes
  /\ host = Host1
  /\ pc = "preflight"
  /\ renames = << >>
  /\ dep_changes = << >>
  /\ files_to_add = << >>
  /\ files_to_delete = << >>
  /\ has_wheels = FALSE
  /\ final_files_to_add = << >>
  /\ temp_dir = "none"
  /\ staging = NoTree
  /\ pip_calls = << >>
  /\ failed_calls = << >>
  /\ output = NoFile
  /\ exit_code = -1
  /\ log = << >>
  /\ prev = NoPrev
  /\ ServiceInit

\* an exit that skips the clean-up of the with block when the run fails
ExitLeavesTempDir(code, events) ==
  /\ pc' = "done"
  /\ exit_code' = code
  /\ log' = log \o events
  /\ temp_dir' = IF temp_dir = "exists" /\ code = 0 THEN "removed" ELSE temp_dir
  /\ staging' = IF code = 0 THEN NoTree ELSE staging

\* sys.exit(code) from inside main: the with block removes temp_dir
Exit(code, events) ==
  /\ pc' = "done"
  /\ exit_code' = code
  /\ log' = log \o events
  /\ temp_dir' = IF temp_dir = "exists" THEN "removed" ELSE temp_dir
  /\ staging' = NoTree

\* preflight_checks without the cat-file command for old_version
PreflightChecksNewOnly ==
  /\ pc = "preflight"
  /\ IF ~GitCatFileOk(args.new_version)
     THEN /\ Exit(1, << "error: command failed" >>)
          /\ failed_calls' = Append(failed_calls, "git cat-file")
     ELSE IF ~args.force /\ worktree.dirty
     THEN /\ Exit(1, << "error: working directory is not clean" >>)
          /\ UNCHANGED failed_calls
     ELSE /\ pc' = "gather"
          /\ temp_dir' = "exists"
          /\ log' = log \o (IF args.force THEN << "warning: force mode" >> ELSE << >>)
          /\ UNCHANGED << exit_code, staging, failed_calls >>
  /\ UNCHANGED svars
  /\ UNCHANGED << args, repo, worktree, index, host, renames, dep_changes,
                  files_to_add, files_to_delete, has_wheels, final_files_to_add,
                  pip_calls, output, prev >>

\* preflight_checks that never runs git status
PreflightSkipsCleanCheck ==
  /\ pc = "preflight"
  /\ LET old_version == IF args.full THEN args.new_version ELSE args.old_version
     IN IF ~GitCatFileOk(old_version) \/ ~GitCatFileOk(args.new_version)
        THEN /\ Exit(1, << "error: command failed" >>)
             /\ failed_calls' = Append(failed_calls, "git cat-file")
        ELSE /\ pc' = "gather"
             /\ temp_dir' = "exists"
             /\ log' = log \o (IF args.force THEN << "warning: force mode" >> ELSE << >>)
             /\ UNCHANGED << exit_code, staging, failed_calls >>
  /\ UNCHANGED svars
  /\ UNCHANGED << args, repo, worktree, index, host, renames, dep_changes,
                  files_to_add, files_to_delete, has_wheels, final_files_to_add,
                  pip_calls, output, prev >>

\* preflight_checks called with old_version in --full mode too
PreflightChecksOldAlways ==
  /\ pc = "preflight"
  /\ IF ~GitCatFileOk(args.old_version) \/ ~GitCatFileOk(args.new_version)
     THEN /\ Exit(1, << "error: command failed" >>)
          /\ failed_calls' = Append(failed_calls, "git cat-file")
     ELSE IF ~args.force /\ worktree.dirty
     THEN /\ Exit(1, << "error: working directory is not clean" >>)
          /\ UNCHANGED failed_calls
     ELSE /\ pc' = "gather"
          /\ temp_dir' = "exists"
          /\ log' = log \o (IF args.force THEN << "warning: force mode" >> ELSE << >>)
          /\ UNCHANGED << exit_code, staging, failed_calls >>
  /\ UNCHANGED svars
  /\ UNCHANGED << args, repo, worktree, index, host, renames, dep_changes,
                  files_to_add, files_to_delete, has_wheels, final_files_to_add,
                  pip_calls, output, prev >>

\* preflight_checks as main calls it, then entering the TemporaryDirectory
Preflight ==
  /\ pc = "preflight"
  /\ LET old_version == IF args.full THEN args.new_version ELSE args.old_version
     IN IF ~GitCatFileOk(old_version) \/ ~GitCatFileOk(args.new_version)
        THEN /\ Exit(1, << "error: command failed" >>)
             /\ failed_calls' = Append(failed_calls, "git cat-file")
        ELSE IF ~args.force /\ worktree.dirty
        THEN /\ Exit(1, << "error: working directory is not clean" >>)
             /\ UNCHANGED failed_calls
        ELSE /\ pc' = "gather"
             /\ temp_dir' = "exists"
             /\ log' = log \o (IF args.force THEN << "warning: force mode" >> ELSE << >>)
             /\ UNCHANGED << exit_code, staging, failed_calls >>
  /\ UNCHANGED svars
  /\ UNCHANGED << args, repo, worktree, index, host, renames, dep_changes,
                  files_to_add, files_to_delete, has_wheels, final_files_to_add,
                  pip_calls, output, prev >>

\* main, --full: get_all_dependencies, get_all_files, no delete list
GatherFull ==
  /\ pc = "gather"
  /\ args.full
  /\ dep_changes' = GetAllDependencies(args.new_version)
  /\ files_to_add' = GetAllFiles(args.new_version)
  /\ files_to_delete' = << >>
  /\ failed_calls' = failed_calls
       \o FailedManifestReads(args.new_version, ReqFiles(args.new_version))
  /\ pc' = "download"
  /\ UNCHANGED svars
  /\ UNCHANGED << args, repo, worktree, index, host, renames, has_wheels,
                  final_files_to_add, temp_dir, staging, pip_calls, output,
                  exit_code, log, prev >>

\* main, incremental: get_dependency_changes, get_file_diff; an IndexError of
\* get_file_diff reaches the except clause of main
GatherDelta ==
  /\ pc = "gather"
  /\ ~args.full
  /\ \E m \in RenameMatchings(args.old_version, args.new_version) :
       LET diff == GetFileDiff(GitDiffTree(args.old_version, args.new_version, m))
       IN /\ renames' = m
          /\ dep_changes' = GetDependencyChanges(args.old_version, args.new_version)
          /\ files_to_add' = diff.files_to_add
          /\ files_to_delete' = diff.files_to_delete
          /\ failed_calls' = failed_calls
               \o FailedManifestReads(args.old_version, ReqFiles(args.new_version))
               \o FailedManifestReads(args.new_version, ReqFiles(args.new_version))
          /\ IF diff.ok
             THEN /\ pc' = "download"
                  /\ UNCHANGED << temp_dir, staging, exit_code, log >>
             ELSE Exit(1, << "error: unexpected error" >>)
  /\ UNCHANGED svars
  /\ UNCHANGED << args, repo, worktree, index, host, has_wheels,
                  final_files_to_add, pip_calls, output, prev >>

\* main: download_wheels
Download ==
  /\ pc = "download"
  /\ LET r == DownloadWheels(dep_changes, host, index)
     IN /\ has_wheels' = r.has_wheels
        /\ staging' = r.tree
        /\ pip_calls' = r.calls
        /\ failed_calls' = failed_calls
             \o [ i \in 1..Len(r.warned) |-> "pip download" ]
        /\ log' = log \o [ i \in 1..Len(r.warned) |-> "warning: pip download may have failed" ]
  /\ pc' = "filter"
  /\ UNCHANGED svars
  /\ UNCHANGED << args, repo, worktree, index, host, renames, dep_changes,
                  files_to_add, files_to_delete, final_files_to_add, temp_dir,
                  output, exit_code, prev >>

\* main with the ignore filter applied to the delete list as well
FilterAlsoFiltersDeletes ==
  /\ pc = "filter"
  /\ LET final == FilterFilesWithDistignore(worktree, files_to_add)
         warn == IF worktree.distignore_is_file THEN << >>
                 ELSE << "warning: .distignore not found" >>
     IN /\ final_files_to_add' = final
        /\ files_to_delete' = FilterFilesWithDistignore(worktree, files_to_delete)
        /\ IF final # << >> \/ has_wheels
           THEN /\ pc' = "archive"
                /\ log' = log \o warn
                /\ UNCHANGED << temp_dir, staging, exit_code >>
           ELSE Exit(0, warn \o << "warning: no package was created" >>)
  /\ UNCHANGED svars
  /\ UNCHANGED << args, repo, worktree, index, host, renames, dep_changes,
                  files_to_add, has_wheels, pip_calls, failed_calls, output, prev >>

\* main: filter_files_with_distignore and the test that decides whether an
\* archive is created
Filter ==
  /\ pc = "filter"
  /\ LET final == FilterFilesWithDistignore(worktree, files_to_add)
         warn == IF worktree.distignore_is_file THEN << >>
                 ELSE << "warning: .distignore not found" >>
     IN /\ final_files_to_add' = final
        /\ IF final # << >> \/ has_wheels
           THEN /\ pc' = "archive"
                /\ log' = log \o warn
                /\ UNCHANGED << temp_dir, staging, exit_code >>
           ELSE Exit(0, warn \o << "warning: no package was created" >>)
  /\ UNCHANGED svars
  /\ UNCHANGED << args, repo, worktree, index, host, renames, dep_changes,
                  files_to_add, files_to_delete, has_wheels, pip_calls,
                  failed_calls, output, prev >>

\* main: create_archive.  A git show that fails exits before output_path is
\* opened.  fault = 0 is a run without I/O error; fault = k is an OSError
\* raised while member k is written to the open output file.
CreateArchive ==
  /\ pc = "archive"
  /\ LET prep == PrepareMembers(args.new_version, final_files_to_add, files_to_delete)
         members == ArchiveMembers(prep.tar_members, staging, has_wheels, host)
     IN IF ~prep.ok
        THEN /\ Exit(1, << "error: command failed" >>)
             /\ failed_calls' = Append(failed_calls, "git show")
             /\ UNCHANGED output
        ELSE \E fault \in 0..(IF Len(members) < MaxFault THEN Len(members) ELSE MaxFault) :
               IF fault = 0
               THEN /\ output' = [exists |-> TRUE, complete |-> TRUE,
                                  opened |-> output.opened + 1,
                                  path |-> OutputPath(args),
                                  gz_mtime |-> FIXED_MTIME, members |-> members]
                    /\ Exit(0, << "success" >>)
                    /\ UNCHANGED failed_calls
               ELSE /\ output' = [exists |-> TRUE, complete |-> FALSE,
                                  opened |-> output.opened + 1,
                                  path |-> OutputPath(args),
                                  gz_mtime |-> FIXED_MTIME,
                                  members |-> SubSeq(members, 1, fault - 1)]
                    /\ Exit(1, << "error: unexpected error" >>)
                    /\ UNCHANGED failed_calls
  /\ UNCHANGED svars
  /\ UNCHANGED << args, repo, worktree, index, host, renames, dep_changes,
                  files_to_add, files_to_delete, has_wheels, final_files_to_add,
                  pip_calls, prev >>

\* a second, independent run on the same repository and output path: the
\* host, the working tree or (with --full) the old revision may differ
Rerun ==
  /\ pc = "done"
  /\ ~prev.valid
  /\ prev' = [valid |-> TRUE, args |-> args, worktree |-> worktree, host |-> host,
              exit_code |-> exit_code, dep_changes |-> dep_changes,
              files_to_add |-> files_to_add, files_to_delete |-> files_to_delete,
              final_files_to_add |-> final_files_to_add, output |-> output, log |-> log]
  /\ \E h \in Hosts, w \in Worktrees, o \in RevNames \cup {BadRev} :
       /\ (IF h # host THEN 1 ELSE 0) + (IF w # worktree THEN 1 ELSE 0)
            + (IF o # args.old_version THEN 1 ELSE 0) = 1
       /\ w.dirty = worktree.dirty
       /\ o # args.old_version => args.full
       /\ host' = h
       /\ worktree' = w
       /\ args' = [args EXCEPT !.old_version = o]
  /\ pc' = "preflight"
  /\ renames' = << >>
  /\ dep_changes' = << >>
  /\ files_to_add' = << >>
  /\ files_to_delete' = << >>
  /\ has_wheels' = FALSE
  /\ final_files_to_add' = << >>
  /\ temp_dir' = "none"
  /\ staging' = NoTree
  /\ pip_calls' = << >>
  /\ failed_calls' = << >>
  /\ exit_code' = -1
  /\ log' = << >>
  /\ UNCHANGED svars
  /\ UNCHANGED << repo, index, output >>

Next ==
  \/ Preflight
  \/ GatherFull
  \/ GatherDelta
  \/ Download
  \/ Filter
  \/ CreateArchive
  \/ Rerun

Spec == Init /\ [][Next]_vars

(***************************************************************************)
(* SpecDiff: incremental runs over generated pairs of trees, for the       *)
(* properties of get_file_diff.  Every path is absent or present at the    *)
(* old revision and absent, unchanged or edited at the new one.            *)
(***************************************************************************)
DiffPathPool ==
  << << "x" >>, << "y" >>, << "a", SP, "b" >>, << "d", ".", "m", "d" >>, << "z" >> >>

DiffPaths == { DiffPathPool[i] : i \in 1..MaxDiffPaths }

BlobOld == Blob(<< "h", "i" >>, M644)
BlobNew == Blob(<< "h", "o" >>, M755)

DiffRepos ==
  { ("old" :> told) @@ ("new" :> tnew) :
      told \in UNION { [ S -> {BlobOld} ] : S \in SUBSET DiffPaths },
      tnew \in UNION { [ S -> {BlobOld, BlobNew} ] : S \in SUBSET DiffPaths } }

InitDiff ==
  /\ args = [old_version |-> "old", new_version |-> "new", full |-> FALSE, force |-> TRUE]
  /\ repo \in DiffRepos
  /\ worktree = [distignore_is_file |-> FALSE, distignore |-> << >>, dirty |-> FALSE]
  /\ index = {}
  /\ host = Host1
  /\ pc = "preflight"
  /\ renames = << >>
  /\ dep_changes = << >>
  /\ files_to_add = << >>
  /\ files_to_delete = << >>
  /\ has_wheels = FALSE
  /\ final_files_to_add = << >>
  /\ temp_dir = "none"
  /\ staging = NoTree
  /\ pip_calls = << >>
  /\ failed_calls = << >>
  /\ output = NoFile
  /\ exit_code = -1
  /\ log = << >>
  /\ prev = NoPrev
  /\ ServiceInit

NextDiff ==
  \/ Preflight
  \/ GatherDelta
  \/ Download
  \/ Filter
  \/ CreateArchive

SpecDiff == InitDiff /\ [][NextDiff]_vars

(***************************************************************************)
(* SpecReq: runs over generated manifests, for the properties of           *)
(* parse_requirements, the dependency delta and download_wheels.  The new  *)
(* revision has a generated requirements.txt at the root and a manifest    *)
(* with one pin in a subdirectory.                                         *)
(***************************************************************************)
\* the lines a generated manifest is made of: pins of two names, a second
\* version of the first name, an arbitrary-equality specifier, a comment and
\* a version range
ReqLinePool ==
  { << "a", "=", "=", "1", ".", "0" >>,
    << "b", "=", "=", "1", ".", "0" >>,
    << "a", "=", "=", "2", ".", "0" >>,
    << "a", "=", "=", "=", "1", ".", "0" >>,
    << "#", "c" >>,
    << "b", ">", "=", "1", ".", "0" >> }

\* the manifests of up to MaxReqLines lines, as lists of lines
ReqManifests == UNION { [ 1..n -> ReqLinePool ] : n \in 0..MaxReqLines }

\* the text of a manifest: every line ends with a line break
ManifestText(lines) == Join([ i \in 1..Len(lines) |-> lines[i] \o << LF >> ], << >>)

\* the directory of the second manifest: a plain name, or a name that ends
\* like a wheel file
SubDirs == { << "s" >>, << "s", ".", "w", "h", "l" >> }

SubPin == << "e", "=", "=", "1", ".", "0" >>
SubPinOld == << "e", "=", "=", "0", ".", "9" >>

\* the old revision: without manifests, or with two pins at the root and an
\* older pin in the subdirectory
ReqOldTrees(sub) ==
  { (<< "x" >> :> BlobOld),
    (<< "x" >> :> BlobOld)
      @@ (ReqName :> Blob(ManifestText(<< << "a", "=", "=", "1", ".", "0" >>,
                                          << "b", "=", "=", "1", ".", "0" >> >>), M644))
      @@ ((sub \o << "/" >> \o ReqName) :> Blob(ManifestText(<< SubPinOld >>), M644)) }

ReqNewTree(lines, sub) ==
  (<< "x" >> :> BlobNew)
    @@ (ReqName :> Blob(ManifestText(lines), M644))
    @@ ((sub \o << "/" >> \o ReqName) :> Blob(ManifestText(<< SubPin >>), M644))

\* the package index: empty, with the wheel of the subdirectory only, or with
\* a wheel for every line of the pool that pip accepts
ReqIndexes ==
  { {}, { SubPin },
    { SubPin, << "a", "=", "=", "1", ".", "0" >>, << "b", "=", "=", "1", ".", "0" >>,
      << "a", "=", "=", "2", ".", "0" >>, << "a", "=", "=", "=", "1", ".", "0" >> } }

InitReq ==
  /\ args \in [old_version : {"old"}, new_version : {"new"}, full : BOOLEAN, force : {TRUE}]
  /\ \E lines \in ReqManifests, sub \in SubDirs :
       \E told \in ReqOldTrees(sub) :
         /\ args.full => told = (<< "x" >> :> BlobOld)
         /\ repo = ("old" :> told) @@ ("new" :> ReqNewTree(lines, sub))
  /\ worktree = [distignore_is_file |-> FALSE, distignore |-> << >>, dirty |-> FALSE]
  /\ index \in ReqIndexes
  /\ host = Host1
  /\ pc = "preflight"
  /\ renames = << >>
  /\ dep_changes = << >>
  /\ files_to_add = << >>
  /\ files_to_delete = << >>
  /\ has_wheels = FALSE
  /\ final_files_to_add = << >>
  /\ temp_dir = "none"
  /\ staging = NoTree
  /\ pip_calls = << >>
  /\ failed_calls = << >>
  /\ output = NoFile
  /\ exit_code = -1
  /\ log = << >>
  /\ prev = NoPrev
  /\ ServiceInit

NextReq ==
  \/ Preflight
  \/ GatherFull
  \/ GatherDelta
  \/ Download
  \/ Filter
  \/ CreateArchive

SpecReq == InitReq /\ [][NextReq]_vars

(***************************************************************************)
(* SpecIgn: runs over generated .distignore files, for the properties of   *)
(* filter_files_with_distignore.                                           *)
(***************************************************************************)
\* the lines a generated .distignore is made of: a glob, a rule that
\* re-includes one document, a rule for a directory and a plain name
IgnoreLinePool ==
  { << "*", ".", "m", "d" >>,
    << "!", "d", ".", "m", "d" >>,
    << "s", "/", "*" >>,
    << "x" >> }

\* the rule lists of up to MaxRules lines
IgnoreRuleLists == UNION { [ 1..n -> IgnoreLinePool ] : n \in 0..MaxRules }

\* two documents next to each other, one in a subdirectory, and x
IgnNewTree ==
  (<< "d", ".", "m", "d" >> :> Blob(<< "m" >>, M644))
    @@ (<< "e", ".", "m", "d" >> :> Blob(<< "m" >>, M644))
    @@ (<< "s", "/", "d", ".", "m", "d" >> :> Blob(<< "m" >>, M644))
    @@ (<< "x" >> :> BlobNew)

InitIgn ==
  /\ args \in [old_version : {"old"}, new_version : {"new"}, full : BOOLEAN, force : {TRUE}]
  /\ repo = ("old" :> (<< "x" >> :> BlobOld)) @@ ("new" :> IgnNewTree)
  /\ \E rules \in IgnoreRuleLists :
       worktree = [distignore_is_file |-> TRUE, distignore |-> ManifestText(rules),
                   dirty |-> FALSE]
  /\ index = {}
  /\ host = Host1
  /\ pc = "preflight"
  /\ renames = << >>
  /\ dep_changes = << >>
  /\ files_to_add = << >>
  /\ files_to_delete = << >>
  /\ has_wheels = FALSE
  /\ final_files_to_add = << >>
  /\ temp_dir = "none"
  /\ staging = NoTree
  /\ pip_calls = << >>
  /\ failed_calls = << >>
  /\ output = NoFile
  /\ exit_code = -1
  /\ log = << >>
  /\ prev = NoPrev
  /\ ServiceInit

NextIgn ==
  \/ Preflight
  \/ GatherFull
  \/ GatherDelta
  \/ Download
  \/ Filter
  \/ CreateArchive

SpecIgn == InitIgn /\ [][NextIgn]_vars

(***************************************************************************)
(* SpecMgr: POSTs to the manager action endpoints, by a client and by the  *)
(* test cases of test_manager_router.py.  No packaging run is in progress. *)
(***************************************************************************)
PackagingIdle ==
  /\ args = [old_version |-> RevName(1), new_version |-> RevName(2),
             full |-> FALSE, force |-> FALSE]
  /\ repo = HistoryRepo
  /\ worktree = CHOOSE w \in Worktrees : ~w.dirty
  /\ index = {}
  /\ host = Host1
  /\ pc = "preflight"
  /\ renames = << >>
  /\ dep_changes = << >>
  /\ files_to_add = << >>
  /\ files_to_delete = << >>
  /\ has_wheels = FALSE
  /\ final_files_to_add = << >>
  /\ temp_dir = "none"
  /\ staging = NoTree
  /\ pip_calls = << >>
  /\ failed_calls = << >>
  /\ output = NoFile
  /\ exit_code = -1
  /\ log = << >>
  /\ prev = NoPrev

InitMgr == PackagingIdle /\ ServiceInit

\* client.post(endpoint, json={"ResetType": ...}) with any adapter outcome
Post ==
  /\ \E endpoint \in ManagerActionEndpoints, reset_type \in ResetTypeInputs,
        adapter_status \in AdapterStatuses :
       http' = Exchange(endpoint, reset_type, adapter_status, 0)
  /\ UNCHANGED << pvars, now, cache, handlers, upstream >>

\* a parametrized test: the adapter is patched to return a Response with
\* status OK, the payload is posted, the status of the response is compared
RunTestcase(testcase) ==
  http' = Exchange(testcase.endpoint, testcase.ResetType, HTTP_OK, testcase.status_code)

test_manager_cdu_reset_to_defaults ==
  /\ \E i \in 1..Len(managers_cdu_reset_to_defaults_testcases) :
       RunTestcase(managers_cdu_reset_to_defaults_testcases[i])
  /\ UNCHANGED << pvars, now, cache, handlers, upstream >>

test_manager_cdu_reset ==
  /\ \E i \in 1..Len(managers_cdu_reset_testcases) :
       RunTestcase(managers_cdu_reset_testcases[i])
  /\ UNCHANGED << pvars, now, cache, handlers, upstream >>

test_manager_cdu_shutdown ==
  /\ \E i \in 1..Len(managers_cdu_shutdown_testcases) :
       RunTestcase(managers_cdu_shutdown_testcases[i])
  /\ UNCHANGED << pvars, now, cache, handlers, upstream >>

NextMgr ==
  \/ Post
  \/ test_manager_cdu_reset_to_defaults
  \/ test_manager_cdu_reset
  \/ test_manager_cdu_shutdown

SpecMgr == InitMgr /\ [][NextMgr]_vars

(***************************************************************************)
(* SpecCache: concurrent request handlers calling a cached reader, one     *)
(* step of the wrapper at a time.                                          *)
(***************************************************************************)
InitCache == PackagingIdle /\ ServiceInit

\* the wrapper looks the key up: a live entry is returned, otherwise the
\* handler goes on to call the decorated function
CacheLookup(h) ==
  /\ handlers[h].pc \in { "idle", "returned", "raised" }
  /\ \E cls \in Classes :
       handlers' = [handlers EXCEPT ![h] =
         IF Live(cache[cls], now)
         THEN [pc |-> "returned", cls |-> cls, req |-> 0,
               v |-> cache[cls].value, hit |-> TRUE]
         ELSE [pc |-> "missed", cls |-> cls, req |-> 0, v |-> 0, hit |-> FALSE]]
  /\ UNCHANGED << pvars, http, now, cache, upstream >>

\* cls.send_get(url): the request leaves for the upstream service
SendGet(h) ==
  /\ handlers[h].pc = "missed"
  /\ Len(upstream) < MaxUpstream
  /\ upstream' = Append(upstream,
                   [cls |-> handlers[h].cls, at |-> now, status |-> "pending"])
  /\ handlers' = [handlers EXCEPT ![h].pc = "waiting", ![h].req = Len(upstream) + 1]
  /\ UNCHANGED << pvars, http, now, cache >>

\* the response arrives: response.json() is stored under the key with the
\* expiry time now + ttl and returned, or the call raises and nothing is stored
StoreAndReturn(h) ==
  /\ handlers[h].pc = "waiting"
  /\ \E ok \in BOOLEAN :
       IF ok
       THEN /\ cache' = [cache EXCEPT ![handlers[h].cls] =
                           [present |-> TRUE, value |-> handlers[h].req,
                            expires |-> now + ttl]]
            /\ upstream' = [upstream EXCEPT ![handlers[h].req].status = "ok"]
            /\ handlers' = [handlers EXCEPT ![h].pc = "returned",
                                            ![h].v = handlers[h].req]
       ELSE /\ upstream' = [upstream EXCEPT ![handlers[h].req].status = "failed"]
            /\ handlers' = [handlers EXCEPT ![h].pc = "raised"]
            /\ UNCHANGED cache
  /\ UNCHANGED << pvars, http, now >>

\* time.monotonic() advances
Tick ==
  /\ now < MaxNow
  /\ now' = now + 1
  /\ UNCHANGED << pvars, http, cache, handlers, upstream >>

NextCache ==
  \/ \E h \in Handlers : CacheLookup(h)
  \/ \E h \in Handlers : SendGet(h)
  \/ \E h \in Handlers : StoreAndReturn(h)
  \/ Tick

SpecCache == InitCache /\ [][NextCache]_vars

(***************************************************************************)
(* Properties.                                                             *)
(***************************************************************************)
\* the file at output_path before this run started
PriorOutput == IF prev.valid THEN prev.output ELSE NoFile

\* the members this run wrote to output_path, none if it did not open it
WrittenMembers == IF output.opened > PriorOutput.opened THEN output.members ELSE << >>

\* the members the previous run wrote
PrevWrittenMembers == IF prev.output.opened > 0 THEN prev.output.members ELSE << >>

\* C1: an incremental run on two identical revisions (the diff source prints
\* no record, no manifest changed) ends with exit code 0, reports that no
\* package was created and leaves output_path alone.
C1_NoOpOnIdenticalRevisions ==
  ( /\ pc = "done"
    /\ ~args.full
    /\ temp_dir = "removed"
    /\ GitDiffTree(args.old_version, args.new_version, << >>) = << >>
    /\ GetDependencyChanges(args.old_version, args.new_version) = << >> )
  => /\ exit_code = 0
     /\ "warning: no package was created" \in Range(log)
     /\ output = PriorOutput

\* C2: a run that ends successfully without writing an archive has an empty
\* final add list, an empty delete list and no fetched wheel; so a run with a
\* non-empty delete list writes an archive.
C2_ArchiveUnlessAllEmpty ==
  (pc = "done" /\ exit_code = 0 /\ output = PriorOutput)
  => /\ final_files_to_add = << >>
     /\ files_to_delete = << >>
     /\ ~has_wheels

\* C3: whatever records the diff source printed, no path is both in the add
\* list and in the delete list of get_file_diff.
C3_AddDeleteDisjoint ==
  Range(files_to_add) \cap Range(files_to_delete) = {}

\* C3 witness: get_file_diff has processed a diff with two renames
C3_TwoRenamesProcessed ==
  /\ pc = "download"
  /\ Cardinality(DOMAIN renames) >= 2
  /\ Len(files_to_delete) >= 2

\* C4: two successful runs with the same arguments, ignore rules and package
\* index write the same archive (members with name, mode, time, owner and
\* content, and the gzip header), on whatever host each of them ran.
C4_DeterministicArchive ==
  ( /\ prev.valid
    /\ pc = "done"
    /\ exit_code = 0
    /\ prev.exit_code = 0
    /\ args = prev.args
    /\ worktree.distignore_is_file = prev.worktree.distignore_is_file
    /\ worktree.distignore = prev.worktree.distignore
    /\ prev.output.opened = 1
    /\ output.opened = 2 )
  => /\ output.members = prev.output.members
     /\ output.gz_mtime = prev.output.gz_mtime
     /\ output.path = prev.output.path

\* C5: a run that ends with a non-zero exit code leaves no partial archive at
\* output_path.
C5_NoPartialArchiveOnFailure ==
  (pc = "done" /\ exit_code # 0) => (output.exists => output.complete)

\* C6: two successful runs with the same arguments on the same host, whose
\* working trees differ, compute the same add list, delete list and
\* dependency changes and write the same archive members.
C6_WorkingTreeIndependent ==
  ( /\ prev.valid
    /\ pc = "done"
    /\ exit_code = 0
    /\ prev.exit_code = 0
    /\ args = prev.args
    /\ host = prev.host )
  => /\ files_to_add = prev.files_to_add
     /\ files_to_delete = prev.files_to_delete
     /\ dep_changes = prev.dep_changes
     /\ WrittenMembers = PrevWrittenMembers

\* the entry of a module in dep_changes, empty when the module has none
ModuleEntry(module) ==
  IF module \in DictKeys(dep_changes) THEN DictGet(dep_changes, module) ELSE << >>

\* C7: in an incremental run, for every manifest of the new revision the
\* entry of its module is exactly the pins of the new manifest that are new
\* or have another version than in the old manifest (no entry when there is
\* none).
C7_DependencyDeltaPerManifest ==
  (~args.full /\ pc \in {"download", "filter", "archive"})
  => \A f \in Range(ReqFiles(args.new_version)) :
       ModuleEntry(PathParent(f))
         = ModuleChanges(
             ParseRequirements(GetFileContentFromGit(args.old_version, f)),
             ParseRequirements(GetFileContentFromGit(args.new_version, f)))

\* get_file_diff has returned in this incremental run
DiffProcessed ==
  /\ ~args.full
  /\ temp_dir # "none"
  /\ pc \in {"download", "filter", "archive", "done"}
  /\ GitDiffTree(args.old_version, args.new_version, renames) # << >>

\* the complete archive of this run has a member app/<path> with this content
HasAppMember(path, content) ==
  \E i \in 1..Len(output.members) :
    /\ output.members[i].name = AppPrefix \o path
    /\ output.members[i].content = content

\* C8: every diff record is classified by its own status: an added or
\* modified path is in the add list only, a deleted path in the delete list
\* only, the old path of a rename in the delete list and its new path in the
\* add list, archived with the content it has at the new revision.
C8_ClassifiedByStatus ==
  DiffProcessed =>
    LET told == repo[args.old_version]
        tnew == repo[args.new_version]
        renamed_to == { renames[p] : p \in DOMAIN renames }
        added == (DOMAIN tnew \ DOMAIN told) \ renamed_to
        deleted == (DOMAIN told \ DOMAIN tnew) \ DOMAIN renames
        changed == { p \in DOMAIN told \cap DOMAIN tnew : told[p] # tnew[p] }
    IN /\ \A p \in added \cup changed :
            p \in Range(files_to_add) /\ p \notin Range(files_to_delete)
       /\ \A p \in deleted :
            p \in Range(files_to_delete) /\ p \notin Range(files_to_add)
       /\ \A p \in DOMAIN renames :
            /\ p \in Range(files_to_delete)
            /\ p \notin Range(files_to_add)
            /\ renames[p] \in Range(files_to_add)
            /\ renames[p] \notin Range(files_to_delete)
            /\ (pc = "done" /\ exit_code = 0 /\ output.complete)
                 => HasAppMember(renames[p], tnew[renames[p]].content)
       /\ Range(files_to_add) \subseteq added \cup changed \cup renamed_to
       /\ Range(files_to_delete) \subseteq deleted \cup DOMAIN renames

\* C8 witness: x renamed to y and edited gives add list [y], delete list [x],
\* and the archive holds app/y with the content of y at the new revision
C8_RenameArchived ==
  /\ pc = "done"
  /\ exit_code = 0
  /\ output.complete
  /\ renames = (<< "x" >> :> << "y" >>)
  /\ files_to_add = << << "y" >> >>
  /\ files_to_delete = << << "x" >> >>
  /\ repo["old"][<< "x" >>] # repo["new"][<< "y" >>]
  /\ HasAppMember(<< "y" >>, repo["new"][<< "y" >>].content)

\* the paths of a tree that the ignore rules of the working tree match
IgnoredPaths(tree) ==
  IF worktree.distignore_is_file
  THEN { f \in DOMAIN tree : MatchFileLoop(SplitLines(worktree.distignore), 1, f, FALSE) }
  ELSE {}

\* C9: in a --full run the final add list is the tree listing of the new
\* revision without the paths the ignore rules match, and the delete list is
\* empty.
C9_SnapshotAddSetIsListing ==
  (args.full /\ (pc = "archive" \/ (pc = "done" /\ temp_dir = "removed")))
  => LET tree == repo[args.new_version]
     IN /\ final_files_to_add = SortedSeq(DOMAIN tree \ IgnoredPaths(tree))
        /\ files_to_delete = << >>

\* C10: every member of the file at output_path has the fixed modification
\* time, uid and gid 0 and owner and group name "root", and the gzip header has
\* the same fixed time.
C10_FixedMetadata ==
  output.exists =>
    /\ output.gz_mtime = FIXED_MTIME
    /\ \A i \in 1..Len(output.members) :
         /\ output.members[i].mtime = FIXED_MTIME
         /\ output.members[i].uid = 0
         /\ output.members[i].gid = 0
         /\ output.members[i].uname = "root"
         /\ output.members[i].gname = "root"

\* C10 witness: a complete archive with application files, delete.list, and
\* directories and wheels staged by a user other than root
C10_ArchiveWithAllKinds ==
  /\ output.complete
  /\ host.uid # 0
  /\ pc = "done"
  /\ output.opened = 1
  /\ \E i \in 1..Len(output.members) : output.members[i].name = DeleteListName
  /\ \E i \in 1..Len(output.members) : StartsWith(output.members[i].name, AppPrefix)
  /\ \E i \in 1..Len(output.members) :
       /\ output.members[i].type = "dir"
       /\ StartsWith(output.members[i].name, WheelsDir)
  /\ \E i \in 1..Len(output.members) :
       /\ output.members[i].type = "file"
       /\ StartsWith(output.members[i].name, WheelsDir)

\* a member that tar.add wrote from the wheels tree
IsArtifact(m) == m.name = WheelsDir \/ StartsWith(m.name, WheelsDir \o << "/" >>)

\* the members create_archive prepared itself: app/<path> and delete.list
NonArtifactMembers(ms) == SelectSeq(ms, LAMBDA m : ~IsArtifact(m))

\* the names of the members ascend in the order of str comparison
NameAscending(ms) ==
  \A i \in 1..(Len(ms) - 1) : ~StrLess(ms[i + 1].name, ms[i].name)

\* C11: in the file at output_path the app/<path> members and delete.list
\* appear in ascending order of their name; and in whatever order the
\* prepared members reach the sort of create_archive, it leaves them in
\* ascending order of their name.
C11_MembersSortedByName ==
  /\ output.exists => NameAscending(NonArtifactMembers(output.members))
  /\ pc = "archive" =>
       LET pre == PrepareMembers(args.new_version, final_files_to_add,
                                 files_to_delete).unsorted
       IN \A f \in Permutations(1..Len(pre)) :
            NameAscending(SortByName([ i \in 1..Len(pre) |-> pre[f[i]] ]))

\* C11 witness: a complete archive with at least three application files,
\* followed by delete.list
C11_SeveralMembersWritten ==
  /\ pc = "done"
  /\ exit_code = 0
  /\ output.complete
  /\ output.opened = 1
  /\ Len(final_files_to_add) >= 3
  /\ files_to_delete # << >>
  /\ Len(NonArtifactMembers(output.members)) = Len(final_files_to_add) + 1
  /\ output.members[Len(NonArtifactMembers(output.members))].name = DeleteListName

\* the number of members named delete.list
DeleteListCount(ms) == Cardinality({ i \in 1..Len(ms) : ms[i].name = DeleteListName })

\* this run has opened output_path for writing
WrittenByThisRun == output.opened > PriorOutput.opened

\* C12: the file at output_path never has more than one delete.list member
\* and has none in a --full run; an archive this run wrote has a delete.list
\* member only if the delete list of the run is non-empty, and a complete one
\* has it whenever the delete list is non-empty.
C12_DeleteListIffDeletes ==
  /\ output.exists => DeleteListCount(output.members) <= 1
  /\ (output.exists /\ args.full) => DeleteListCount(output.members) = 0
  /\ WrittenByThisRun =>
       (DeleteListCount(output.members) = 1 => files_to_delete # << >>)
  /\ (WrittenByThisRun /\ pc = "done" /\ exit_code = 0) =>
       (files_to_delete # << >> => DeleteListCount(output.members) = 1)

\* C12 witness: an incremental run with a non-empty delete list has written a
\* complete archive that holds delete.list once
C12_DeleteListWritten ==
  /\ pc = "done"
  /\ exit_code = 0
  /\ ~args.full
  /\ WrittenByThisRun
  /\ output.complete
  /\ files_to_delete # << >>
  /\ DeleteListCount(output.members) = 1

\* the paths that the records of diff-tree remove, in the order of the
\* records: the path of a D record, the old path of an R record
DeletedInRecordOrder ==
  LET told == repo[args.old_version]
      tnew == repo[args.new_version]
      renamed_to == { renames[p] : p \in DOMAIN renames }
      changed == { p \in DOMAIN told \cap DOMAIN tnew : told[p] # tnew[p] }
      order == SortedSeq(((DOMAIN told \ DOMAIN tnew) \ DOMAIN renames)
                           \cup (DOMAIN tnew \ DOMAIN told) \cup changed)
      Gone(p) ==
        IF p \in renamed_to THEN << CHOOSE q \in DOMAIN renames : renames[q] = p >>
        ELSE IF p \notin DOMAIN tnew THEN << p >>
        ELSE << >>
  IN Join([ i \in 1..Len(order) |-> Gone(order[i]) ], << >>)

\* the content of the delete.list member of the file at output_path
DeleteListContent ==
  output.members[CHOOSE i \in 1..Len(output.members) :
                   output.members[i].name = DeleteListName].content

\* C13: the delete list holds the removed paths in the order of their diff
\* records, a renamed-away path at the place of its rename record, and the
\* content of delete.list is these paths in this order joined by newline.
C13_DeleteListInDiscoveryOrder ==
  DiffProcessed =>
    /\ files_to_delete = DeletedInRecordOrder
    /\ (pc = "done" /\ exit_code = 0 /\ WrittenByThisRun /\ files_to_delete # << >>)
         => /\ DeleteListCount(output.members) = 1
            /\ DeleteListContent = Join(DeletedInRecordOrder, << LF >>)

\* C13 witness: y was renamed to a path that sorts before x and x was
\* deleted: delete.list has y before x, not in sorted order
C13_UnsortedDeleteListWritten ==
  /\ pc = "done"
  /\ exit_code = 0
  /\ output.complete
  /\ DOMAIN renames = { << "y" >> }
  /\ files_to_delete = << << "y" >>, << "x" >> >>
  /\ DeleteListCount(output.members) = 1
  /\ DeleteListContent = << "y", LF, "x" >>

\* the delete list get_file_diff computes from the output of diff-tree
DiffDeleteList ==
  GetFileDiff(GitDiffTree(args.old_version, args.new_version, renames)).files_to_delete

\* C14: after the ignore filter has run, the delete list is still the one
\* get_file_diff computed, whatever the ignore rules are, and a complete
\* archive lists all of it in delete.list.
C14_DeleteSetNotFiltered ==
  (DiffProcessed /\ (pc = "archive" \/ (pc = "done" /\ exit_code = 0)))
  => /\ files_to_delete = DiffDeleteList
     /\ (pc = "done" /\ WrittenByThisRun /\ files_to_delete # << >>)
          => DeleteListContent = Join(DiffDeleteList, << LF >>)

\* C14 witness: the ignore rules match a deleted path, and the archive still
\* lists it in delete.list
C14_IgnoredPathStillDeleted ==
  /\ pc = "done"
  /\ exit_code = 0
  /\ WrittenByThisRun
  /\ output.complete
  /\ worktree.distignore_is_file
  /\ << "d", ".", "m", "d" >> \in IgnoredFiles(worktree.distignore, files_to_delete)
  /\ DeleteListContent = Join(files_to_delete, << LF >>)

\* C15: a complete archive of a successful run has, for every path p of the
\* final add list, exactly one member app/p, with the content of p at the new
\* revision and the permission bits recorded for p in the tree of the new
\* revision.
C15_AppMemberPerAddedPath ==
  (pc = "done" /\ exit_code = 0 /\ WrittenByThisRun) =>
    \A p \in Range(final_files_to_add) :
      LET hits == { i \in 1..Len(output.members) :
                     output.members[i].name = AppPrefix \o p }
          blob == repo[args.new_version][p]
      IN /\ Cardinality(hits) = 1
         /\ \A i \in hits :
              /\ output.members[i].content = blob.content
              /\ output.members[i].mode = OctInt(blob.mode) % 4096

\* the steps after get_all_dependencies or get_dependency_changes returned
DepsGathered == pc \in {"download", "filter", "archive"} \/ (pc = "done" /\ exit_code = 0)

\* C16: every key of the dependency delta maps to a non-empty list of
\* specifiers, with --full and without.
C16_NoEmptyModuleEntry ==
  DepsGathered => \A i \in 1..Len(dep_changes) : dep_changes[i][2] # << >>

\* C16 witness: in an incremental run the manifest at the root changed only
\* by a removed pin: the root module has no entry, the module of the
\* subdirectory has one
C16_RemovedPinOmitted ==
  /\ pc = "download"
  /\ ~args.full
  /\ LET old_reqs == ParseRequirements(GetFileContentFromGit(args.old_version, ReqName))
         new_reqs == ParseRequirements(GetFileContentFromGit(args.new_version, ReqName))
     IN /\ new_reqs # << >>
        /\ Range(old_reqs) # Range(new_reqs)
        /\ ModuleChanges(old_reqs, new_reqs) = << >>
  /\ << "." >> \notin DictKeys(dep_changes)
  /\ dep_changes # << >>

\* u is v with some elements left out, the others in the same order
RECURSIVE IsSubseq(_, _)
IsSubseq(u, v) ==
  IF u = << >> THEN TRUE
  ELSE IF v = << >> THEN FALSE
  ELSE IF Head(u) = Head(v) THEN IsSubseq(Tail(u), Tail(v))
  ELSE IsSubseq(u, Tail(v))

\* the specifiers of the pin lines of a manifest, line by line in the order
\* of the manifest
PinLineSpecs(content) ==
  LET lines == SplitLines(content)
      One(line) ==
        LET packages == ParseRequirements(line)
        IN IF packages = << >> THEN << >>
           ELSE << Specifier(packages[1][1], packages[1][2]) >>
  IN Join([ i \in 1..Len(lines) |-> One(lines[i]) ], << >>)

\* C17: for every manifest of the new revision, the specifiers of its module
\* can be matched to pin lines of the manifest so that they appear in the
\* order of these lines.
C17_DeltaInManifestOrder ==
  DepsGathered =>
    \A f \in Range(ReqFiles(args.new_version)) :
      IsSubseq(ModuleEntry(PathParent(f)),
               PinLineSpecs(GetFileContentFromGit(args.new_version, f)))

\* the characters of a distribution name and of a version
NameChars ==
  { "a", "b", "c", "d", "e", "h", "i", "l", "m", "n", "o", "p", "q", "r", "s",
    "t", "u", "v", "w", "x", "y", "z", "0", "1", "2", "3", "4", "5", "6", "7",
    "8", "9", "-", "." }
VersionChars == NameChars \ { "-" }

\* the trimmed line is not blank, is no comment and has the exact form
\* name==version
ExactPinLine(line) ==
  LET t == Strip(line)
  IN /\ t # << >>
     /\ ~StartsWith(t, << "#" >>)
     /\ \E k \in 2..(Len(t) - 2) :
          /\ SubSeq(t, k, k + 1) = << "=", "=" >>
          /\ \A j \in 1..(k - 1) : t[j] \in NameChars
          /\ \A j \in (k + 2)..Len(t) : t[j] \in VersionChars

\* C18: for every line of every manifest of the new revision,
\* parse_requirements yields a pin for the line exactly if the trimmed line
\* is not blank, is no comment and has the exact form name==version; so with
\* --full a module has an entry exactly if its manifest has such a line.
C18_OnlyExactPinsParsed ==
  DepsGathered =>
    \A f \in Range(ReqFiles(args.new_version)) :
      LET lines == SplitLines(GetFileContentFromGit(args.new_version, f))
      IN /\ \A i \in 1..Len(lines) :
              (ParseRequirements(lines[i]) # << >>) <=> ExactPinLine(lines[i])
         /\ args.full =>
              (ModuleEntry(PathParent(f)) # << >>
                 <=> \E i \in 1..Len(lines) : ExactPinLine(lines[i]))

\* download_wheels has returned in this run
Downloaded == pc \in {"filter", "archive"} \/ (pc = "done" /\ exit_code = 0)

\* C19: after download_wheels, pip was run once for every module of the
\* dependency delta, in the order of the delta, with the specifiers of that
\* module and a destination directory of its own, whatever the earlier
\* commands returned; and a run in which pip was called fails, if at all, only
\* after main went on to create the archive.
C19_EveryModuleFetched ==
  /\ Downloaded =>
       /\ Len(pip_calls) = Len(dep_changes)
       /\ \A i \in 1..Len(pip_calls) :
            /\ pip_calls[i].dest = TargetDir(dep_changes[i][1])
            /\ pip_calls[i].requirements = Join(dep_changes[i][2], << LF >>)
            /\ pc # "done" =>
                 (pip_calls[i].dest \in DOMAIN staging
                    /\ staging[pip_calls[i].dest].type = "dir")
       /\ \A i, j \in 1..Len(pip_calls) :
            i # j => pip_calls[i].dest # pip_calls[j].dest
  /\ (pc = "done" /\ exit_code # 0 /\ pip_calls # << >>)
       => (final_files_to_add # << >> \/ has_wheels)

\* C19 witness: the fetch of the first module failed, the fetch of the second
\* was still made and succeeded, and the run completed its archive
C19_SecondFetchAfterFailure ==
  /\ pc = "done"
  /\ exit_code = 0
  /\ output.complete
  /\ Len(pip_calls) = 2
  /\ pip_calls[1].returncode # 0
  /\ pip_calls[2].returncode = 0
  /\ has_wheels
  /\ "warning: pip download may have failed" \in Range(log)

\* a wheel file exists somewhere below temp_dir
WheelFileStaged ==
  \E p \in DOMAIN staging :
    staging[p].type = "file" /\ EndsWith(p, << ".", "w", "h", "l" >>)

\* C20: with an empty dependency delta download_wheels runs no pip command
\* and returns false; with a non-empty delta it returns true exactly if a
\* wheel file is staged below temp_dir; and an archive this run completed has
\* members of the wheels tree exactly if download_wheels returned true.
C20_HasWheelsIffWheelStaged ==
  /\ Downloaded =>
       (dep_changes = << >> => (~has_wheels /\ pip_calls = << >>))
  /\ (pc \in {"filter", "archive"} /\ dep_changes # << >>) =>
       (has_wheels <=> WheelFileStaged)
  /\ (pc = "done" /\ exit_code = 0 /\ WrittenByThisRun) =>
       (has_wheels <=> \E i \in 1..Len(output.members) : IsArtifact(output.members[i]))

\* the run has listed no tree, read no diff and no manifest, fetched nothing
\* and not opened output_path
NothingPerformed ==
  /\ temp_dir = "none"
  /\ dep_changes = << >>
  /\ files_to_add = << >>
  /\ files_to_delete = << >>
  /\ final_files_to_add = << >>
  /\ pip_calls = << >>
  /\ staging = NoTree
  /\ ~WrittenByThisRun

\* C21 as stated: when old_version or new_version does not resolve to a
\* commit, the run does nothing but the pre-flight checks and ends with a
\* non-zero exit code.
C21_AnyBadRevisionIsFatal ==
  (~GitCatFileOk(args.old_version) \/ ~GitCatFileOk(args.new_version))
  => /\ pc \in {"preflight", "done"}
     /\ pc = "done" => exit_code # 0
     /\ NothingPerformed

\* C21 amended: when a revision the run uses (new_version, and old_version
\* unless --full is given) does not resolve to a commit, the run does nothing
\* but the pre-flight checks and ends with a non-zero exit code.
C21_BadUsedRevisionIsFatal ==
  (~GitCatFileOk(args.new_version) \/ (~args.full /\ ~GitCatFileOk(args.old_version)))
  => /\ pc \in {"preflight", "done"}
     /\ pc = "done" => (exit_code # 0 /\ "git cat-file" \in Range(failed_calls))
     /\ NothingPerformed

\* C21 witness: an incremental run whose old_version does not resolve has
\* ended in the pre-flight checks
C21_BadOldRevisionRejected ==
  /\ pc = "done"
  /\ ~args.full
  /\ ~GitCatFileOk(args.old_version)
  /\ GitCatFileOk(args.new_version)
  /\ exit_code = 1
  /\ failed_calls = << "git cat-file" >>
  /\ NothingPerformed

\* the revisions the run uses resolve to commits
UsedRevisionsOk ==
  /\ GitCatFileOk(args.new_version)
  /\ args.full \/ GitCatFileOk(args.old_version)

\* C22: with uncommitted changes and without --force the run does nothing but
\* the pre-flight checks and ends with a non-zero exit code; with --force a run
\* whose revisions resolve logs the warning, does not report the working
\* directory and goes on into the body of main.
C22_CleanCheckUnlessForce ==
  /\ (worktree.dirty /\ ~args.force) =>
       /\ pc \in {"preflight", "done"}
       /\ pc = "done" => exit_code # 0
       /\ NothingPerformed
  /\ (args.force /\ UsedRevisionsOk /\ pc # "preflight") =>
       /\ "warning: force mode" \in Range(log)
       /\ "error: working directory is not clean" \notin Range(log)
       /\ temp_dir # "none"

\* C22 witness: a run with --force on a working tree with uncommitted
\* changes has logged the warning and written its archive
C22_ForcedDirtyRunCompleted ==
  /\ pc = "done"
  /\ exit_code = 0
  /\ worktree.dirty
  /\ args.force
  /\ "warning: force mode" \in Range(log)
  /\ WrittenByThisRun
  /\ output.complete

\* C23: once an external command other than pip download has returned a
\* failure status, the run has ended with a non-zero exit code: it takes no
\* further step on the result of the failed command.
C23_FailedCallsAreFatal ==
  (\E i \in 1..Len(failed_calls) : failed_calls[i] # "pip download")
  => (pc = "done" /\ exit_code # 0)

\* this run and the previous one are --full runs that differ in old_version
\* only, and neither met an I/O error while writing
FullRunsDifferInOldOnly ==
  /\ prev.valid
  /\ pc = "done"
  /\ args.full
  /\ prev.args = [args EXCEPT !.old_version = prev.args.old_version]
  /\ args.old_version # prev.args.old_version
  /\ host = prev.host
  /\ worktree = prev.worktree
  /\ "error: unexpected error" \notin Range(log) \cup Range(prev.log)

\* C24: two --full runs that differ only in old_version end with the same
\* exit code, add list, final add list, dependency set and output path, and
\* write the same archive members.
C24_OldRevisionIgnoredWhenFull ==
  FullRunsDifferInOldOnly =>
    /\ exit_code = prev.exit_code
    /\ files_to_add = prev.files_to_add
    /\ files_to_delete = prev.files_to_delete
    /\ final_files_to_add = prev.final_files_to_add
    /\ dep_changes = prev.dep_changes
    /\ OutputPath(args) = OutputPath(prev.args)
    /\ WrittenMembers = PrevWrittenMembers
    /\ (WrittenByThisRun => output.path = prev.output.path)

\* C24 witness: two --full runs, one of them with an old_version that
\* resolves to no commit, have both written the archive
C24_BadOldRevisionSameArchive ==
  /\ FullRunsDifferInOldOnly
  /\ BadRev \in { args.old_version, prev.args.old_version }
  /\ exit_code = 0
  /\ prev.exit_code = 0
  /\ output.opened = 2
  /\ output.complete
  /\ output.members = prev.output.members

\* C25: when the run has ended, the temporary directory does not exist and
\* nothing is staged below it: it was removed, or the run ended in the
\* pre-flight checks before it was created.
C25_TempDirGoneAtExit ==
  pc = "done" =>
    /\ temp_dir \in {"none", "removed"}
    /\ staging = NoTree
    /\ temp_dir = "none" => NothingPerformed

\* C25 witness: a run that had staged wheels below the temporary directory
\* was ended by a git show that failed, and the directory is gone
C25_RemovedAfterFatalCommand ==
  /\ pc = "done"
  /\ exit_code = 1
  /\ temp_dir = "removed"
  /\ has_wheels
  /\ failed_calls # << >>
  /\ failed_calls[Len(failed_calls)] = "git show"
  /\ "error: command failed" \in Range(log)

\* filter_files_with_distignore has returned in this run
Filtered == pc = "archive" \/ (pc = "done" /\ exit_code = 0)

\* the sub-lists of a list: some elements left out, the others in order
SubLists(files) == { FilterSeq(files, S) : S \in SUBSET Range(files) }

\* C26: filtering the final add list again with the same rules returns it
\* unchanged, and so does filtering twice any sub-list of the add list.
C26_FilterIdempotent ==
  Filtered =>
    /\ FilterFilesWithDistignore(worktree, final_files_to_add) = final_files_to_add
    /\ \A S \in SubLists(files_to_add) :
         FilterFilesWithDistignore(worktree, FilterFilesWithDistignore(worktree, S))
           = FilterFilesWithDistignore(worktree, S)

\* C26 witness: the rules exclude the documents and re-include d.md: the
\* filter has removed e.md, which follows d.md in the add list, and kept d.md
C26_NegationRuleApplied ==
  /\ pc = "archive"
  /\ worktree.distignore = ManifestText(<< << "*", ".", "m", "d" >>,
                                           << "!", "d", ".", "m", "d" >> >>)
  /\ << "e", ".", "m", "d" >> \in Range(files_to_add)
  /\ << "e", ".", "m", "d" >> \notin Range(final_files_to_add)
  /\ << "d", ".", "m", "d" >> \in Range(final_files_to_add)

\* C28: without a .distignore at the project root, the final add list is the
\* add list (same paths, same order) and the warning is logged; the filter
\* does not end the run: a run that logged the warning and failed had gone on
\* to create the archive.
C28_NoRulesPassThrough ==
  /\ (~worktree.distignore_is_file /\ Filtered) =>
       /\ final_files_to_add = files_to_add
       /\ "warning: .distignore not found" \in Range(log)
  /\ (pc = "done" /\ exit_code # 0 /\ "warning: .distignore not found" \in Range(log)) =>
       /\ final_files_to_add = files_to_add
       /\ final_files_to_add # << >> \/ has_wheels

\* C28 witness: a run without .distignore has archived a document that the
\* rules of the other working trees exclude
C28_UnfilteredArchiveWritten ==
  /\ pc = "done"
  /\ exit_code = 0
  /\ ~worktree.distignore_is_file
  /\ "warning: .distignore not found" \in Range(log)
  /\ Len(files_to_add) >= 2
  /\ final_files_to_add = files_to_add
  /\ HasAppMember(<< "d", ".", "m", "d" >>, << "m" >>)

\* the specifiers a manifest of the new revision contributes: all its pins
\* with --full, its new or changed pins otherwise
Contribution(f) ==
  LET new_reqs == ParseRequirements(GetFileContentFromGit(args.new_version, f))
  IN IF args.full
     THEN { Specifier(new_reqs[j][1], new_reqs[j][2]) : j \in 1..Len(new_reqs) }
     ELSE Range(ModuleChanges(
                  ParseRequirements(GetFileContentFromGit(args.old_version, f)),
                  new_reqs))

\* C29: for every path of the new revision that ends in requirements.txt,
\* every specifier the manifest contributes is in the entry of its module in
\* the dependency delta, also when two manifests share a directory.
C29_NoManifestLost ==
  DepsGathered =>
    \A f \in Range(ReqFiles(args.new_version)) :
      Contribution(f) \subseteq Range(ModuleEntry(PathParent(f)))

RequestsApart(i, j) ==
  (upstream[i].cls = upstream[j].cls /\ upstream[i].status = "ok")
    => upstream[j].at >= upstream[i].at + ttl

\* C30: for a given class a cached reader issues at most one upstream
\* request per TTL window, and a caller that arrives while a fetched value
\* is younger than the TTL receives that value without an upstream request,
\* under every interleaving of the request handlers.
C30_OneRequestPerTtlWindow ==
  /\ \A j \in 1..Len(upstream) : \A i \in 1..(j - 1) : RequestsApart(i, j)
  /\ \A h \in Handlers :
       (handlers[h].pc = "returned" /\ handlers[h].hit) =>
         /\ handlers[h].req = 0
         /\ handlers[h].v \in 1..Len(upstream)
         /\ upstream[handlers[h].v].cls = handlers[h].cls
         /\ upstream[handlers[h].v].status = "ok"

=============================================================================
